---------------------------- MODULE Spec2Model ----------------------------
(***************************************************************************)
(* A model of the goose-compatible SQL migration parser of ts-goose        *)
(* (src/sql-parser.ts).  Text is a sequence of one-character strings, so   *)
(* that trimming, splitting, regular-expression matching and the           *)
(* character scanner are computed the way the code computes them.          *)
(***************************************************************************)
EXTENDS Integers, Sequences, FiniteSets, TLC

(***************************************************************************)
(*                         JavaScript string helpers                       *)
(***************************************************************************)

\* \s of a JavaScript regular expression, and what String.prototype.trim strips
IsSpace(c) == c \in {" ", "\n", "\t", "\r"}

LowerLetters == <<"a", "b", "c", "d", "e", "f", "g", "h", "i", "j", "k", "l", "m",
                  "n", "o", "p", "q", "r", "s", "t", "u", "v", "w", "x", "y", "z">>
UpperLetters == <<"A", "B", "C", "D", "E", "F", "G", "H", "I", "J", "K", "L", "M",
                  "N", "O", "P", "Q", "R", "S", "T", "U", "V", "W", "X", "Y", "Z">>
Digits == {"0", "1", "2", "3", "4", "5", "6", "7", "8", "9"}

IsLower(c) == \E k \in 1..26 : LowerLetters[k] = c
IsUpper(c) == \E k \in 1..26 : UpperLetters[k] = c

\* String.prototype.toUpperCase, one character
UpperChar(c) == IF IsLower(c) THEN UpperLetters[CHOOSE k \in 1..26 : LowerLetters[k] = c]
                ELSE c

\* String.prototype.toUpperCase
toUpperCase(s) == [k \in 1..Len(s) |-> UpperChar(s[k])]

\* [A-Za-z0-9_]
IsWordChar(c) == IsLower(c) \/ IsUpper(c) \/ c \in Digits \/ c = "_"

\* [A-Za-z_]
IsNameStart(c) == IsLower(c) \/ IsUpper(c) \/ c = "_"

\* s.slice(k): the text from 0-based index k on
Slice(s, k) == SubSeq(s, k + 1, Len(s))

\* s.slice(a, b): the text from 0-based index a up to, not including, b
Slice2(s, a, b) == SubSeq(s, a + 1, b)

RECURSIVE TrimStart(_)
TrimStart(s) == IF s # <<>> /\ IsSpace(Head(s)) THEN TrimStart(Tail(s)) ELSE s

RECURSIVE TrimEnd(_)
TrimEnd(s) == IF s # <<>> /\ IsSpace(s[Len(s)]) THEN TrimEnd(SubSeq(s, 1, Len(s) - 1))
              ELSE s

\* String.prototype.trim
Trim(s) == TrimEnd(TrimStart(s))

\* s.startsWith(p)
StartsWith(s, p) == Len(s) >= Len(p) /\ SubSeq(s, 1, Len(p)) = p

\* s.endsWith(p)
EndsWith(s, p) == Len(s) >= Len(p) /\ SubSeq(s, Len(s) - Len(p) + 1, Len(s)) = p

\* the text at 1-based position p of s is pat (compared ignoring case when ci)
MatchAt(s, p, pat, ci) ==
  /\ p + Len(pat) - 1 <= Len(s)
  /\ \A k \in 1..Len(pat) :
       IF ci THEN UpperChar(s[p + k - 1]) = UpperChar(pat[k])
       ELSE s[p + k - 1] = pat[k]

\* 1-based position of the first "\n" at or after p, Len(s) + 1 when there is none
RECURSIVE LineEndFrom(_, _)
LineEndFrom(s, p) == IF p > Len(s) \/ s[p] = "\n" THEN p ELSE LineEndFrom(s, p + 1)

\* s.split("\n"): always at least one line
RECURSIVE Split(_)
Split(s) == LET e == LineEndFrom(s, 1)
            IN IF e > Len(s) THEN <<s>>
               ELSE <<SubSeq(s, 1, e - 1)>> \o Split(SubSeq(s, e + 1, Len(s)))

\* lines.join("\n")
RECURSIVE Join(_)
Join(ls) == IF ls = <<>> THEN <<>>
            ELSE IF Len(ls) = 1 THEN ls[1]
            ELSE ls[1] \o <<"\n">> \o Join(Tail(ls))

\* 1-based position of the first non-space character at or after p
RECURSIVE SkipSpaces(_, _)
SkipSpaces(s, p) == IF p <= Len(s) /\ IsSpace(s[p]) THEN SkipSpaces(s, p + 1) ELSE p

\* number of occurrences of character c in s
RECURSIVE CountChar(_, _)
CountChar(s, c) == IF s = <<>> THEN 0
                   ELSE (IF Head(s) = c THEN 1 ELSE 0) + CountChar(Tail(s), c)

\* s contains pat as a substring
Contains(s, pat) == \E p \in 1..(Len(s) - Len(pat) + 1) : MatchAt(s, p, pat, FALSE)


(***************************************************************************)
(*                    Constants and annotation recognition                 *)
(***************************************************************************)

UP_COMMENT == <<"-", "-", " ", "+", "g", "o", "o", "s", "e", " ", "U", "p">>
DOWN_COMMENT == <<"-", "-", " ", "+", "g", "o", "o", "s", "e", " ", "D", "o", "w", "n">>
NO_TRANSACTION_COMMENT ==
  <<"-", "-", " ", "+", "g", "o", "o", "s", "e", " ",
    "N", "O", " ", "T", "R", "A", "N", "S", "A", "C", "T", "I", "O", "N">>
\* the second literal startsWithNoTxDirective compares with
NO_TRANSACTION_ALT ==
  <<"-", "-", "+", "g", "o", "o", "s", "e", " ",
    "N", "O", " ", "T", "R", "A", "N", "S", "A", "C", "T", "I", "O", "N">>

GooseWord == <<"+", "g", "o", "o", "s", "e">>
DashDash == <<"-", "-">>
Semicolon == <<";">>

\* the texts of the type Ann
AnnUp == <<"U", "P">>
AnnDown == <<"D", "O", "W", "N">>
AnnStatementBegin == <<"S", "T", "A", "T", "E", "M", "E", "N", "T", "B", "E", "G", "I", "N">>
AnnStatementEnd == <<"S", "T", "A", "T", "E", "M", "E", "N", "T", "E", "N", "D">>
AnnNoTransaction == <<"N", "O", " ", "T", "R", "A", "N", "S", "A", "C", "T", "I", "O", "N">>
AnnEnvsubOn == <<"E", "N", "V", "S", "U", "B", " ", "O", "N">>
AnnEnvsubOff == <<"E", "N", "V", "S", "U", "B", " ", "O", "F", "F">>

\* the value parseAnnotation returns for a line that is no annotation
NoAnn == "null"

\* /^--\s*\+goose\s+/i at the start of line: the 1-based position right after
\* the white space that follows "+goose", 0 when the prefix does not match
GoosePrefixEnd(line) ==
  IF ~StartsWith(line, DashDash) THEN 0
  ELSE LET a == SkipSpaces(line, 3)
       IN IF MatchAt(line, a, GooseWord, TRUE)
             /\ a + 6 <= Len(line) /\ IsSpace(line[a + 6])
          THEN SkipSpaces(line, a + 6)
          ELSE 0

\* ANN_LINE_RE = /^--\s*\+goose\s+(.+?)\s*$/i, then the switch on the
\* trimmed, upper-cased group
parseAnnotation(line) ==
  LET q == GoosePrefixEnd(line)
  IN IF q = 0 THEN NoAnn
     ELSE LET cmd == toUpperCase(Trim(Slice(line, q - 1)))
          IN CASE cmd = AnnUp -> "UP"
               [] cmd = AnnDown -> "DOWN"
               [] cmd = AnnStatementBegin -> "STATEMENTBEGIN"
               [] cmd = AnnStatementEnd -> "STATEMENTEND"
               [] cmd = AnnNoTransaction -> "NO TRANSACTION"
               [] cmd = AnnEnvsubOn -> "ENVSUB ON"
               [] cmd = AnnEnvsubOff -> "ENVSUB OFF"
               [] OTHER -> NoAnn

\* /^--\s*\+goose\s+${ann}$/i or /^--\+goose\s+${ann}$/i on the trimmed line
isGooseAnn(line, ann) ==
  LET trimmed == Trim(line)
      q == GoosePrefixEnd(trimmed)
  IN /\ q # 0
     /\ Len(trimmed) - q + 1 = Len(ann)
     /\ MatchAt(trimmed, q, ann, TRUE)

\* the first element of ls that is not empty, <<>> when there is none
\* (undefined in the code, which then compares unequal to both literals)
RECURSIVE FirstNonEmpty(_)
FirstNonEmpty(ls) == IF ls = <<>> THEN <<>>
                     ELSE IF Len(Head(ls)) > 0 THEN Head(ls)
                     ELSE FirstNonEmpty(Tail(ls))

startsWithNoTxDirective(s) ==
  LET ls == Split(s)
      firstNonEmpty == FirstNonEmpty([k \in 1..Len(ls) |-> Trim(ls[k])])
  IN \/ firstNonEmpty = NO_TRANSACTION_COMMENT
     \/ firstNonEmpty = NO_TRANSACTION_ALT

\* ensureTrailingSemicolon that trims and never appends
ensureTrailingSemicolon_TrimOnly(statement) == Trim(statement)

ensureTrailingSemicolon(statement) ==
  LET t == Trim(statement)
  IN IF EndsWith(t, Semicolon) THEN t ELSE t \o Semicolon

\* 1-based position of the first "*/" at or after p, 0 when there is none
RECURSIVE FindClose(_, _)
FindClose(s, p) == IF p + 1 > Len(s) THEN 0
                   ELSE IF s[p] = "*" /\ s[p + 1] = "/" THEN p
                   ELSE FindClose(s, p + 1)

\* statement.replace(/\/\*[\s\S]*?\*\//g, "")
RECURSIVE StripBlockComments(_)
StripBlockComments(s) ==
  IF s = <<>> THEN <<>>
  ELSE IF Len(s) >= 2 /\ s[1] = "/" /\ s[2] = "*" /\ FindClose(s, 3) # 0
       THEN StripBlockComments(Slice(s, FindClose(s, 3) + 1))
       ELSE <<Head(s)>> \o StripBlockComments(Tail(s))

isCommentOnly(statement) ==
  LET ls == Split(StripBlockComments(statement))
  IN \A k \in 1..Len(ls) :
       LET l == Trim(ls[k]) IN l = <<>> \/ StartsWith(l, DashDash)

(***************************************************************************)
(*                 Structure validation and section extraction             *)
(***************************************************************************)

\* new RegExp(`^${escapeRe(comment)}\\s*$`, "m") matches at 1-based position
\* p: p starts a line, the comment text follows (ignoring case with the "i"
\* flag) and the rest of that line is white space
AnnLineAt(s, p, comment, ci) ==
  /\ (p = 1 \/ s[p - 1] = "\n")
  /\ MatchAt(s, p, comment, ci)
  /\ LET q == p + Len(comment)
     IN \A k \in q..(LineEndFrom(s, q) - 1) : IsSpace(s[k])

\* s.search(re): the 0-based index of the first match, -1 when there is none
search(s, comment, ci) ==
  LET hits == {p \in 1..Len(s) : AnnLineAt(s, p, comment, ci)}
  IN IF hits = {} THEN -1
     ELSE (CHOOSE p \in hits : \A r \in hits : p <= r) - 1

\* (s.match(re) || []).length with the flags "gim"
matchCount(s, comment) == Cardinality({p \in 1..Len(s) : AnnLineAt(s, p, comment, TRUE)})

NoError == [msg |-> "none", found |-> -1]

\* the messages of the errors, the number they report kept beside the text
UpCountError(n) ==
  [msg |-> "Migration file must have exactly one '${upComment}' annotation. Found ${n}.",
   found |-> n]
DownCountError(n) ==
  [msg |-> "Migration file can have at most one '${downComment}' annotation. Found ${n}.",
   found |-> n]
OrderError ==
  [msg |-> "'${upComment}' must come before '${downComment}' in migration file.",
   found |-> -1]
DownMissingError ==
  [msg |-> "DOWN section not found. Missing '-- +goose Down' comment.", found |-> -1]

\* validateMigrationFile without the count of the Down annotations
validateMigrationFile_NoDownCount(fileContent, upComment, downComment) ==
  LET upMatches == matchCount(fileContent, upComment)
      downMatches == matchCount(fileContent, downComment)
      upIdx == search(fileContent, upComment, TRUE)
      downIdx == search(fileContent, downComment, TRUE)
  IN IF upMatches = 0
       THEN [ok |-> FALSE,
             error |-> UpCountError(0)]
     ELSE IF upMatches > 1
       THEN [ok |-> FALSE,
             error |-> UpCountError(upMatches)]
     ELSE IF downMatches >= 1 /\ downIdx < upIdx
       THEN [ok |-> FALSE,
             error |-> OrderError]
     ELSE [ok |-> TRUE, error |-> NoError]

validateMigrationFile(fileContent, upComment, downComment) ==
  LET upMatches == matchCount(fileContent, upComment)
      downMatches == matchCount(fileContent, downComment)
      upIdx == search(fileContent, upComment, TRUE)
      downIdx == search(fileContent, downComment, TRUE)
  IN IF upMatches = 0
       THEN [ok |-> FALSE,
             error |-> UpCountError(0)]
     ELSE IF upMatches > 1
       THEN [ok |-> FALSE,
             error |-> UpCountError(upMatches)]
     ELSE IF downMatches > 1
       THEN [ok |-> FALSE,
             error |-> DownCountError(downMatches)]
     ELSE IF downMatches = 1 /\ downIdx < upIdx
       THEN [ok |-> FALSE,
             error |-> OrderError]
     ELSE [ok |-> TRUE, error |-> NoError]

extractUpSection(fileContent, upComment, downComment) ==
  LET v == validateMigrationFile(fileContent, upComment, downComment)
      upIdx == search(fileContent, upComment, FALSE)
      content == Trim(Slice(fileContent, upIdx + Len(upComment)))
      downIdx == search(content, downComment, FALSE)
  IN IF ~v.ok THEN [ok |-> FALSE, value |-> <<>>, error |-> v.error]
     ELSE [ok |-> TRUE,
           value |-> IF downIdx # -1 THEN Trim(Slice2(content, 0, downIdx)) ELSE content,
           error |-> NoError]

extractDownSection(fileContent, downComment, upComment) ==
  LET v == validateMigrationFile(fileContent, upComment, downComment)
      downIdx == search(fileContent, downComment, FALSE)
  IN IF ~v.ok THEN [ok |-> FALSE, value |-> <<>>, error |-> v.error]
     ELSE IF downIdx = -1
       THEN [ok |-> FALSE, value |-> <<>>,
             error |-> DownMissingError]
     ELSE [ok |-> TRUE,
           value |-> Trim(Slice(fileContent, downIdx + Len(downComment))),
           error |-> NoError]

\* /(^|\n)--\s*\+goose\s+up\s*$/im.test(content) and the same with "down":
\* word is the marker word of the regular expression
hasMarker(content, word) ==
  \E p \in 1..Len(content) :
    /\ (p = 1 \/ content[p - 1] = "\n")
    /\ MatchAt(content, p, DashDash, FALSE)
    /\ LET a == SkipSpaces(content, p + 2)
       IN /\ MatchAt(content, a, GooseWord, TRUE)
          /\ a + 6 <= Len(content)
          /\ IsSpace(content[a + 6])
          /\ LET b == SkipSpaces(content, a + 6)
                 q == b + Len(word)
             IN /\ MatchAt(content, b, word, TRUE)
                /\ \A k \in q..(LineEndFrom(content, q) - 1) : IsSpace(content[k])

(***************************************************************************)
(*                              Program state                              *)
(***************************************************************************)

VARIABLES
  env,                 \* process.env: variable name -> value, unset names absent
  file,                \* the text the caller holds: a section or a whole migration file
  calls,               \* number of calls of the public API started so far
  op,                  \* the public function of the current call
  direction,           \* parseSqlStatements: the argument direction
  content,             \* parseSqlStatements: the argument content
  pc,                  \* position of the current call
  transaction,         \* parseSqlStatements: const transaction
  lines,               \* parseSqlStatements: const lines = section.split("\n")
  ln,                  \* 1-based index in lines of the line scanLine is called with next
  line,                \* scanLine: const line, the interpolated text being scanned
  i,                   \* scanLine: let i, the 0-based index in line
  statements,          \* parseSqlStatements: const statements
  state,               \* parseSqlStatements: let state: ParserState
  buf,                 \* parseSqlStatements: let buf
  haveBegunStatement,  \* parseSqlStatements: let haveBegunStatement
  inSQ,                \* tokenizer flag: single-quoted string
  inDQ,                \* tokenizer flag: double-quoted identifier
  inLine,              \* tokenizer flag: -- comment
  inBlock,             \* tokenizer flag: block comment
  dollarTag,           \* tokenizer: the open dollar tag, NullTag when none
  envOn,               \* parseSqlStatements: let envOn
  result,              \* what the current call returned or threw
  prior,               \* what the previous call of the session returned or threw
  migration_dir,       \* the files of config.migration_dir
  table_exists,        \* whether the table config.table_name exists
  appliedVersions,     \* the version_id of the table's rows, by applied_at ascending
  command,             \* the command the process runs
  cpc,                 \* position of the command
  targetVersion,       \* the command's argument targetVersion, 0 when it takes none
  versions,            \* the command's const versions = await store.getVersions(...)
  pending,             \* the versions the loop of a rollback has still to visit
  loading,             \* getMigrations: the files it has still to turn into migrations
  migrations,          \* the migrations built and still to run, the current one first
  storeCalls,          \* the calls of the store the command has made, in order
  exitCode,            \* the code the process ended with, NoExit while it runs
  argv,                \* process.argv from index 2 on: the command and its arguments
  handling,            \* the arguments of the call of an error handler, NoHandling when none
  console,             \* what console.error has logged, in order
  peer                 \* the command layer of a second process on the same database

\* the command line, the error handler's call and the second process
cliVars == <<argv, handling, console, peer>>

\* the state of the command layer: the directory, the database, the process
commandVars == <<migration_dir, table_exists, appliedVersions, command, cpc, targetVersion,
                 versions, pending, loading, migrations, storeCalls, exitCode, cliVars>>

vars == <<env, file, calls, op, direction, content, pc, transaction, lines, ln, line, i,
          statements, state, buf, haveBegunStatement, inSQ, inDQ, inLine, inBlock,
          dollarTag, envOn, result, prior, commandVars>>

\* dollarTag = null: no sequence of characters equals it
NullTag == <<"null">>

NORMAL == "NORMAL"
IN_BLOCK == "IN_BLOCK"

\* the closure variables scanLine and flushIfNonEmpty read and write
Locals == [statements |-> statements, state |-> state, buf |-> buf,
           haveBegunStatement |-> haveBegunStatement, inSQ |-> inSQ, inDQ |-> inDQ,
           inLine |-> inLine, inBlock |-> inBlock, dollarTag |-> dollarTag,
           envOn |-> envOn]

\* the locals as parseSqlStatements declares them
InitialLocals == [statements |-> <<>>, state |-> NORMAL, buf |-> <<>>,
                  haveBegunStatement |-> FALSE, inSQ |-> FALSE, inDQ |-> FALSE,
                  inLine |-> FALSE, inBlock |-> FALSE, dollarTag |-> NullTag,
                  envOn |-> FALSE]

NoResult == [status |-> "none", statements |-> <<>>, transaction |-> TRUE,
             value |-> <<>>, error |-> NoError]

Returned(stmts, tx) == [status |-> "returned", statements |-> stmts, transaction |-> tx,
                        value |-> <<>>, error |-> NoError]

ReturnedValue(v) == [status |-> "returned", statements |-> <<>>, transaction |-> TRUE,
                     value |-> v, error |-> NoError]

Thrown(e) == [status |-> "thrown", statements |-> <<>>, transaction |-> TRUE,
              value |-> <<>>, error |-> e]

Error(m) == [msg |-> m, found |-> -1]

(***************************************************************************)
(*                        The statement assembler                          *)
(***************************************************************************)

\* 1-based position right after the name that starts at p: [A-Za-z0-9_]*
RECURSIVE WordEnd(_, _)
WordEnd(s, p) == IF p <= Len(s) /\ IsWordChar(s[p]) THEN WordEnd(s, p + 1) ELSE p

\* line.replace(/\$\{([A-Za-z_][A-Za-z0-9_]*)\}/g, (_, k) => process.env[k] ?? "")
RECURSIVE ExpandEnv(_, _)
ExpandEnv(s, e) ==
  IF s = <<>> THEN <<>>
  ELSE IF /\ Len(s) >= 4
          /\ s[1] = "$" /\ s[2] = "{" /\ IsNameStart(s[3])
          /\ WordEnd(s, 3) <= Len(s) /\ s[WordEnd(s, 3)] = "}"
       THEN LET k == SubSeq(s, 3, WordEnd(s, 3) - 1)
            IN (IF k \in DOMAIN e THEN e[k] ELSE <<>>)
                 \o ExpandEnv(Slice(s, WordEnd(s, 3)), e)
       ELSE <<Head(s)>> \o ExpandEnv(Tail(s), e)

\* interpolateEnv without the test of its flag
interpolateEnv_Always(l, on) == ExpandEnv(l, env)

interpolateEnv(l, on) == IF ~on THEN l ELSE ExpandEnv(l, env)

flushIfNonEmpty(L) ==
  LET stmt == Trim(L.buf)
  IN [L EXCEPT !.statements = IF stmt # <<>> /\ ~isCommentOnly(stmt)
                                THEN Append(@, ensureTrailingSemicolon(stmt))
                                ELSE @,
               !.buf = <<>>,
               !.haveBegunStatement = FALSE]

\* maybeEndStatementOnSemicolon without the test of the double-quote flag
maybeEndStatementOnSemicolon_NoDQ(L, ch) ==
  IF ch # ";" THEN FALSE
  ELSE IF L.inSQ \/ L.inLine \/ L.inBlock \/ L.dollarTag # NullTag THEN FALSE
  ELSE IF L.state # NORMAL THEN FALSE
  ELSE TRUE

maybeEndStatementOnSemicolon(L, ch) ==
  IF ch # ";" THEN FALSE
  ELSE IF L.inSQ \/ L.inDQ \/ L.inLine \/ L.inBlock \/ L.dollarTag # NullTag THEN FALSE
  ELSE IF L.state # NORMAL THEN FALSE
  ELSE TRUE

NestedError == Error("Nested StatementBegin found. Blocks cannot be nested.")
DanglingEndError == Error("'-- +goose StatementEnd' without matching StatementBegin.")
UnclosedError == Error("Unclosed StatementBegin block. Missing -- +goose StatementEnd.")
DirectionError == Error("Invalid direction: ${direction}")

Return(L) == [L |-> L, outcome |-> "return", error |-> NoError]
Throw(L, e) == [L |-> L, outcome |-> "throw", error |-> e]
Scan(L) == [L |-> L, outcome |-> "scan", error |-> NoError]

\* leadingAnnotation with a StatementBegin that is accepted inside a block
leadingAnnotation_NoNestedCheck(L, ann) ==
  CASE ann = "NO TRANSACTION" -> Return(L)
    [] ann = "ENVSUB ON" -> Return([L EXCEPT !.envOn = TRUE])
    [] ann = "ENVSUB OFF" -> Return([L EXCEPT !.envOn = FALSE])
    [] ann = "STATEMENTBEGIN" -> Return([L EXCEPT !.state = IN_BLOCK])
    [] ann = "STATEMENTEND" ->
         IF L.state # IN_BLOCK THEN Throw(L, DanglingEndError)
         ELSE Return([flushIfNonEmpty(L) EXCEPT !.state = NORMAL])
    [] OTHER -> Return(L)

\* the switch of scanLine taken for a leading annotation line
\* (no statement begun): StatementBegin enters the block without a flush
leadingAnnotation(L, ann) ==
  CASE ann = "NO TRANSACTION" -> Return(L)
    [] ann = "ENVSUB ON" -> Return([L EXCEPT !.envOn = TRUE])
    [] ann = "ENVSUB OFF" -> Return([L EXCEPT !.envOn = FALSE])
    [] ann = "STATEMENTBEGIN" ->
         IF L.state = IN_BLOCK THEN Throw(L, NestedError)
         ELSE Return([L EXCEPT !.state = IN_BLOCK])
    [] ann = "STATEMENTEND" ->
         IF L.state # IN_BLOCK THEN Throw(L, DanglingEndError)
         ELSE Return([flushIfNonEmpty(L) EXCEPT !.state = NORMAL])
    [] OTHER -> Return(L)

\* innerAnnotation with a StatementEnd that leaves the block without
\* flushing the buffer
innerAnnotation_NoEndFlush(L, ann) ==
  CASE ann = "NO TRANSACTION" -> Return(L)
    [] ann = "ENVSUB ON" -> Return([L EXCEPT !.envOn = TRUE])
    [] ann = "ENVSUB OFF" -> Return([L EXCEPT !.envOn = FALSE])
    [] ann = "STATEMENTBEGIN" ->
         IF L.state = IN_BLOCK THEN Throw(L, NestedError)
         ELSE Return([(IF Trim(L.buf) # <<>> THEN flushIfNonEmpty(L) ELSE L)
                        EXCEPT !.state = IN_BLOCK])
    [] ann = "STATEMENTEND" ->
         IF L.state # IN_BLOCK THEN Throw(L, DanglingEndError)
         ELSE Return([L EXCEPT !.state = NORMAL])
    [] OTHER -> Return(L)

\* the switch of scanLine taken for an annotation line inside a statement
innerAnnotation(L, ann) ==
  CASE ann = "NO TRANSACTION" -> Return(L)
    [] ann = "ENVSUB ON" -> Return([L EXCEPT !.envOn = TRUE])
    [] ann = "ENVSUB OFF" -> Return([L EXCEPT !.envOn = FALSE])
    [] ann = "STATEMENTBEGIN" ->
         IF L.state = IN_BLOCK THEN Throw(L, NestedError)
         ELSE Return([(IF Trim(L.buf) # <<>> THEN flushIfNonEmpty(L) ELSE L)
                        EXCEPT !.state = IN_BLOCK])
    [] ann = "STATEMENTEND" ->
         IF L.state # IN_BLOCK THEN Throw(L, DanglingEndError)
         ELSE Return([flushIfNonEmpty(L) EXCEPT !.state = NORMAL])
    [] OTHER -> Return(L)

\* scanLineHead that takes an annotation line inside a statement for text
scanLineHead_NoInnerAnnotation(L, s) ==
  LET trim == Trim(s)
      ann == parseAnnotation(trim)
  IN IF ~L.haveBegunStatement /\ (trim = <<>> \/ StartsWith(trim, DashDash))
       THEN (IF ann # NoAnn THEN leadingAnnotation(L, ann) ELSE Return(L))
     ELSE LET l == interpolateEnv(s, L.envOn)
              M == [L EXCEPT !.haveBegunStatement = TRUE]
          IN IF M.state = IN_BLOCK
               THEN Return([M EXCEPT !.buf = @ \o l \o <<"\n">>])
             ELSE Scan(M)

\* scanLine(s) up to the character loop: annotations, skipped leading lines,
\* the verbatim append of a block line; outcome "scan" when the loop is to run
scanLineHead(L, s) ==
  LET trim == Trim(s)
      ann == parseAnnotation(trim)
  IN IF ~L.haveBegunStatement /\ (trim = <<>> \/ StartsWith(trim, DashDash))
       THEN (IF ann # NoAnn THEN leadingAnnotation(L, ann) ELSE Return(L))
     ELSE IF ann # NoAnn
       THEN innerAnnotation(L, ann)
     ELSE LET l == interpolateEnv(s, L.envOn)
              M == [L EXCEPT !.haveBegunStatement = TRUE]
          IN IF M.state = IN_BLOCK
               THEN Return([M EXCEPT !.buf = @ \o l \o <<"\n">>])
             ELSE Scan(M)

\* dollarOpenTag that forgets the tag it matched
dollarOpenTag_NoTag(l, j) ==
  LET e == WordEnd(l, j + 2)
  IN IF e <= Len(l) /\ l[e] = "$" THEN <<>> ELSE NullTag

\* /^\$([A-Za-z0-9_]*)\$/u.exec(line.slice(i)): the tag, NullTag when no match
dollarOpenTag(l, j) ==
  LET e == WordEnd(l, j + 2)
  IN IF e <= Len(l) /\ l[e] = "$" THEN SubSeq(l, j + 2, e - 1) ELSE NullTag

Advance(L, j) == [L |-> L, i |-> j]

\* scanChar with a doubled quote read as a closing quote and an opening one
scanChar_DoubledQuoteCloses(L, l, j) ==
  LET ch == l[j + 1]
      next == IF j + 1 < Len(l) THEN l[j + 2] ELSE ""
      \* enter line comments
      A == IF ~L.inSQ /\ ~L.inDQ /\ ~L.inBlock /\ L.dollarTag = NullTag
              /\ ch = "-" /\ next = "-"
           THEN [L EXCEPT !.inLine = TRUE] ELSE L
      openBlock == ~A.inSQ /\ ~A.inDQ /\ ~A.inLine /\ A.dollarTag = NullTag
                   /\ ch = "/" /\ next = "*"
      closeBlock == ~openBlock /\ A.inBlock /\ ch = "*" /\ next = "/"
      B == IF openBlock THEN [A EXCEPT !.inBlock = TRUE] ELSE A
      dollarZone == ~B.inSQ /\ ~B.inDQ /\ ~B.inLine /\ ~B.inBlock
      openTag == IF dollarZone /\ B.dollarTag = NullTag /\ ch = "$"
                 THEN dollarOpenTag(l, j) ELSE NullTag
      maybe == <<"$">> \o B.dollarTag \o <<"$">>
      closeTag == dollarZone /\ B.dollarTag # NullTag /\ ch = "$"
                  /\ Slice2(l, j, IF j + Len(maybe) <= Len(l) THEN j + Len(maybe) ELSE Len(l))
                       = maybe
      dqZone == ~B.inSQ /\ ~B.inLine /\ ~B.inBlock /\ B.dollarTag = NullTag
      dqEscape == FALSE
      D == IF dqZone /\ ~B.inDQ /\ ch = "\"" THEN [B EXCEPT !.inDQ = TRUE]
           ELSE IF dqZone /\ B.inDQ /\ ch = "\"" THEN [B EXCEPT !.inDQ = FALSE]
           ELSE B
      sqZone == ~D.inDQ /\ ~D.inLine /\ ~D.inBlock /\ D.dollarTag = NullTag
      sqEscape == FALSE
      E == IF sqZone /\ ~D.inSQ /\ ch = "'" THEN [D EXCEPT !.inSQ = TRUE]
           ELSE IF sqZone /\ D.inSQ /\ ch = "'" THEN [D EXCEPT !.inSQ = FALSE]
           ELSE D
  IN IF closeBlock
       THEN Advance([A EXCEPT !.inBlock = FALSE, !.buf = @ \o <<"*", "/">>], j + 2)
     ELSE IF openTag # NullTag
       THEN Advance([B EXCEPT !.dollarTag = openTag,
                              !.buf = @ \o <<"$">> \o openTag \o <<"$">>],
                    j + Len(openTag) + 2)
     ELSE IF closeTag
       THEN Advance([B EXCEPT !.dollarTag = NullTag, !.buf = @ \o maybe], j + Len(maybe))
     ELSE IF dqEscape
       THEN Advance([B EXCEPT !.buf = @ \o <<"\"", "\"">>], j + 2)
     ELSE IF sqEscape
       THEN Advance([D EXCEPT !.buf = @ \o <<"'", "'">>], j + 2)
     ELSE IF maybeEndStatementOnSemicolon(E, ch)
       THEN Advance([E EXCEPT !.statements =
                                 Append(@, ensureTrailingSemicolon(Trim(E.buf \o <<ch>>))),
                              !.buf = <<>>,
                              !.haveBegunStatement = FALSE],
                    j + 1)
     ELSE Advance([E EXCEPT !.buf = @ \o <<ch>>], j + 1)

\* one iteration of the while loop of scanLine, at 0-based index j of l
scanChar(L, l, j) ==
  LET ch == l[j + 1]
      next == IF j + 1 < Len(l) THEN l[j + 2] ELSE ""
      \* enter line comments
      A == IF ~L.inSQ /\ ~L.inDQ /\ ~L.inBlock /\ L.dollarTag = NullTag
              /\ ch = "-" /\ next = "-"
           THEN [L EXCEPT !.inLine = TRUE] ELSE L
      openBlock == ~A.inSQ /\ ~A.inDQ /\ ~A.inLine /\ A.dollarTag = NullTag
                   /\ ch = "/" /\ next = "*"
      closeBlock == ~openBlock /\ A.inBlock /\ ch = "*" /\ next = "/"
      B == IF openBlock THEN [A EXCEPT !.inBlock = TRUE] ELSE A
      dollarZone == ~B.inSQ /\ ~B.inDQ /\ ~B.inLine /\ ~B.inBlock
      openTag == IF dollarZone /\ B.dollarTag = NullTag /\ ch = "$"
                 THEN dollarOpenTag(l, j) ELSE NullTag
      maybe == <<"$">> \o B.dollarTag \o <<"$">>
      closeTag == dollarZone /\ B.dollarTag # NullTag /\ ch = "$"
                  /\ Slice2(l, j, IF j + Len(maybe) <= Len(l) THEN j + Len(maybe) ELSE Len(l))
                       = maybe
      dqZone == ~B.inSQ /\ ~B.inLine /\ ~B.inBlock /\ B.dollarTag = NullTag
      dqEscape == dqZone /\ B.inDQ /\ ch = "\"" /\ next = "\""
      D == IF dqZone /\ ~B.inDQ /\ ch = "\"" THEN [B EXCEPT !.inDQ = TRUE]
           ELSE IF dqZone /\ B.inDQ /\ ch = "\"" THEN [B EXCEPT !.inDQ = FALSE]
           ELSE B
      sqZone == ~D.inDQ /\ ~D.inLine /\ ~D.inBlock /\ D.dollarTag = NullTag
      sqEscape == sqZone /\ D.inSQ /\ ch = "'" /\ next = "'"
      E == IF sqZone /\ ~D.inSQ /\ ch = "'" THEN [D EXCEPT !.inSQ = TRUE]
           ELSE IF sqZone /\ D.inSQ /\ ch = "'" THEN [D EXCEPT !.inSQ = FALSE]
           ELSE D
  IN IF closeBlock
       THEN Advance([A EXCEPT !.inBlock = FALSE, !.buf = @ \o <<"*", "/">>], j + 2)
     ELSE IF openTag # NullTag
       THEN Advance([B EXCEPT !.dollarTag = openTag,
                              !.buf = @ \o <<"$">> \o openTag \o <<"$">>],
                    j + Len(openTag) + 2)
     ELSE IF closeTag
       THEN Advance([B EXCEPT !.dollarTag = NullTag, !.buf = @ \o maybe], j + Len(maybe))
     ELSE IF dqEscape
       THEN Advance([B EXCEPT !.buf = @ \o <<"\"", "\"">>], j + 2)
     ELSE IF sqEscape
       THEN Advance([D EXCEPT !.buf = @ \o <<"'", "'">>], j + 2)
     ELSE IF maybeEndStatementOnSemicolon(E, ch)
       THEN Advance([E EXCEPT !.statements =
                                 Append(@, ensureTrailingSemicolon(Trim(E.buf \o <<ch>>))),
                              !.buf = <<>>,
                              !.haveBegunStatement = FALSE],
                    j + 1)
     ELSE Advance([E EXCEPT !.buf = @ \o <<ch>>], j + 1)

\* scanLineTail without resetLineComment()
scanLineTail_KeepsLineComment(L) == [L EXCEPT !.buf = @ \o <<"\n">>]

\* the end of scanLine after the loop: resetLineComment(); buf += "\n"
scanLineTail(L) == [L EXCEPT !.inLine = FALSE, !.buf = @ \o <<"\n">>]

\* a statement with the directive lines that leaked into it removed
stripDirectives(st) ==
  LET ls == Split(st)
      keep == SelectSeq(ls, LAMBDA l :
                ~isGooseAnn(l, AnnNoTransaction) /\ ~isGooseAnn(l, AnnEnvsubOn)
                /\ ~isGooseAnn(l, AnnEnvsubOff) /\ ~isGooseAnn(l, AnnStatementBegin)
                /\ ~isGooseAnn(l, AnnStatementEnd))
  IN Trim(Join(keep))

\* parseSqlStatements after the last line: the end-of-file flush and the filter
finish(L, tx) ==
  IF L.state = IN_BLOCK THEN Thrown(UnclosedError)
  ELSE LET all == IF Trim(L.buf) # <<>> /\ ~isCommentOnly(L.buf)
                  THEN Append(L.statements, ensureTrailingSemicolon(L.buf))
                  ELSE L.statements
           mapped == [k \in 1..Len(all) |-> stripDirectives(all[k])]
           filtered == SelectSeq(mapped, LAMBDA t : Len(t) > 0)
       IN Returned(filtered, tx)

(***************************************************************************)
(*                                 Actions                                 *)
(***************************************************************************)

SetLocals(L) ==
  /\ statements' = L.statements
  /\ state' = L.state
  /\ buf' = L.buf
  /\ haveBegunStatement' = L.haveBegunStatement
  /\ inSQ' = L.inSQ
  /\ inDQ' = L.inDQ
  /\ inLine' = L.inLine
  /\ inBlock' = L.inBlock
  /\ dollarTag' = L.dollarTag
  /\ envOn' = L.envOn

\* the section parseSqlStatements assembles: the content itself, or the
\* extracted section when the content holds an Up or a Down marker
sectionOf(c, d) ==
  LET hasUp == hasMarker(c, AnnUp)
      hasDown == hasMarker(c, AnnDown)
  IN IF hasUp \/ hasDown
       THEN IF d = "up" THEN extractUpSection(c, UP_COMMENT, DOWN_COMMENT)
            ELSE IF d = "down" THEN extractDownSection(c, DOWN_COMMENT, UP_COMMENT)
            ELSE [ok |-> FALSE, value |-> <<>>, error |-> DirectionError]
     ELSE [ok |-> TRUE, value |-> c, error |-> NoError]

\* parseSqlStatements with envOn kept from the call before, as a variable
\* declared outside the function would be
parseSqlStatements_SharedEnvOn(c, d) ==
  LET section == sectionOf(c, d)
  IN /\ op' = "parseSqlStatements"
     /\ calls' = calls + 1
     /\ content' = c
     /\ direction' = d
     /\ transaction' = ~startsWithNoTxDirective(c)
     /\ SetLocals([InitialLocals EXCEPT !.envOn = envOn])
     /\ line' = <<>>
     /\ i' = 0
     /\ ln' = 1
     /\ prior' = result
     /\ IF section.ok
          THEN /\ lines' = Split(section.value)
               /\ pc' = "lines"
               /\ result' = NoResult
          ELSE /\ lines' = <<>>
               /\ pc' = "thrown"
               /\ result' = Thrown(section.error)
     /\ UNCHANGED <<commandVars, env, file>>

\* parseSqlStatements(c, d) from its entry to the first call of scanLine
parseSqlStatements(c, d) ==
  LET section == sectionOf(c, d)
  IN /\ op' = "parseSqlStatements"
     /\ calls' = calls + 1
     /\ content' = c
     /\ direction' = d
     /\ transaction' = ~startsWithNoTxDirective(c)
     /\ SetLocals(InitialLocals)
     /\ line' = <<>>
     /\ i' = 0
     /\ ln' = 1
     /\ prior' = result
     /\ IF section.ok
          THEN /\ lines' = Split(section.value)
               /\ pc' = "lines"
               /\ result' = NoResult
          ELSE /\ lines' = <<>>
               /\ pc' = "thrown"
               /\ result' = Thrown(section.error)
     /\ UNCHANGED <<commandVars, env, file>>

\* the caller parses the text it holds: parseSqlStatements(file), the
\* direction defaulting to "up"
CallParse ==
  /\ pc = "idle"
  /\ parseSqlStatements(file, "up")

\* parseSqlStatements(file, "down")
CallParseDown ==
  /\ pc = "idle"
  /\ parseSqlStatements(file, "down")

\* for (const line of lines) scanLine(line): the call of scanLine up to its
\* character loop
ScanLineStart ==
  /\ pc = "lines"
  /\ ln <= Len(lines)
  /\ LET r == scanLineHead(Locals, lines[ln])
     IN /\ SetLocals(r.L)
        /\ IF r.outcome = "throw"
             THEN /\ pc' = "thrown"
                  /\ result' = Thrown(r.error)
                  /\ UNCHANGED <<ln, line, i>>
           ELSE IF r.outcome = "scan"
             THEN /\ pc' = "chars"
                  /\ line' = interpolateEnv(lines[ln], envOn)
                  /\ i' = 0
                  /\ UNCHANGED <<ln, result>>
           ELSE /\ ln' = ln + 1
                /\ UNCHANGED <<pc, line, i, result>>
  /\ UNCHANGED <<commandVars, env, file, calls, op, direction, content, transaction, lines, prior>>

\* one iteration of while (i < line.length)
ScanChar ==
  /\ pc = "chars"
  /\ i < Len(line)
  /\ LET r == scanChar(Locals, line, i)
     IN /\ SetLocals(r.L)
        /\ i' = r.i
  /\ UNCHANGED <<commandVars, env, file, calls, op, direction, content, pc, transaction, lines, ln,
                 line, result, prior>>

\* the loop has ended: the tail of scanLine
ScanLineEnd ==
  /\ pc = "chars"
  /\ i >= Len(line)
  /\ SetLocals(scanLineTail(Locals))
  /\ pc' = "lines"
  /\ ln' = ln + 1
  /\ UNCHANGED <<commandVars, env, file, calls, op, direction, content, transaction, lines, line, i,
                 result, prior>>

\* every line is scanned: the unclosed-block check, the last flush, the filter
ParseFinish ==
  /\ pc = "lines"
  /\ ln > Len(lines)
  /\ LET r == finish(Locals, transaction)
     IN /\ result' = r
        /\ pc' = r.status
  /\ UNCHANGED <<commandVars, env, file, calls, op, direction, content, transaction, lines, ln, line, i,
                 statements, state, buf, haveBegunStatement, inSQ, inDQ, inLine, inBlock,
                 dollarTag, envOn, prior>>

(***************************************************************************)
(*                      A call as a function of its arguments              *)
(***************************************************************************)

\* the character loop of scanLine on line l from index j, and the tail
RECURSIVE scanLineLoop(_, _, _)
scanLineLoop(L, l, j) ==
  IF j >= Len(l) THEN scanLineTail(L)
  ELSE LET r == scanChar(L, l, j) IN scanLineLoop(r.L, l, r.i)

\* for (const line of lines) scanLine(line), from line k on: the locals at the
\* end, or the error thrown on the way
RECURSIVE scanLines(_, _, _)
scanLines(L, ls, k) ==
  IF k > Len(ls) THEN Return(L)
  ELSE LET r == scanLineHead(L, ls[k])
       IN IF r.outcome = "throw" THEN r
          ELSE IF r.outcome = "scan"
            THEN scanLines(scanLineLoop(r.L, interpolateEnv(ls[k], L.envOn), 0), ls, k + 1)
          ELSE scanLines(r.L, ls, k + 1)

\* parseSqlStatements(c, d) from entry to return or throw
parseResult(c, d) ==
  LET section == sectionOf(c, d)
  IN IF ~section.ok THEN Thrown(section.error)
     ELSE LET r == scanLines(InitialLocals, Split(section.value), 1)
          IN IF r.outcome = "throw" THEN Thrown(r.error)
             ELSE finish(r.L, ~startsWithNoTxDirective(c))

\* validateMigrationFile(c) from entry to return or throw
validateResult(c) ==
  LET v == validateMigrationFile(c, UP_COMMENT, DOWN_COMMENT)
  IN IF v.ok THEN ReturnedValue(<<>>) ELSE Thrown(v.error)

\* extractUpSection(c) from entry to return or throw
extractUpResult(c) ==
  LET x == extractUpSection(c, UP_COMMENT, DOWN_COMMENT)
  IN IF x.ok THEN ReturnedValue(x.value) ELSE Thrown(x.error)

\* extractDownSection(c) from entry to return or throw
extractDownResult(c) ==
  LET x == extractDownSection(c, DOWN_COMMENT, UP_COMMENT)
  IN IF x.ok THEN ReturnedValue(x.value) ELSE Thrown(x.error)

(***************************************************************************)
(*                 The commands: the directory and the store               *)
(***************************************************************************)

\* the variables of a call of the parser
parserVars == <<env, file, calls, op, direction, content, pc, transaction, lines, ln, line,
                i, statements, state, buf, haveBegunStatement, inSQ, inDQ, inLine,
                inBlock, dollarTag, envOn, result, prior>>

\* enum ExitCode
SUCCESS == 0
ERROR == 1
INVALID_ARGUMENT == 2
NO_MIGRATIONS == 3
MIGRATION_ERROR == 4
DATABASE_ERROR == 5

\* the process has not ended
NoExit == -1

\* no error handler has been called
NoHandling == [handler |-> "none"]

\* no second process runs
NoPeer == [cpc |-> "none"]

\* handleError(error, context) with a string: exitCode stays ExitCode.ERROR
handleError == ERROR

\* exitSuccess(message): process.exit(ExitCode.SUCCESS)
exitSuccess == SUCCESS

\* handleNoMigrations(context): a GooseError carrying ExitCode.NO_MIGRATIONS
handleNoMigrations == NO_MIGRATIONS

\* handleMigrationError(message, context): a GooseError carrying
\* ExitCode.MIGRATION_ERROR
handleMigrationError == MIGRATION_ERROR

\* handleVersionError(version, context): a GooseError carrying
\* ExitCode.INVALID_ARGUMENT
handleVersionError == INVALID_ARGUMENT

\* the file of a set of files that sorts first: the lowest version_id
FirstFile(fs) == CHOOSE f \in fs : \A g \in fs : f.version_id <= g.version_id

\* the files of a set by version_id descending
RECURSIVE getMigrationVersions_Descending(_)
getMigrationVersions_Descending(dir) ==
  IF dir = {} THEN <<>>
  ELSE Append(getMigrationVersions_Descending(dir \ {FirstFile(dir)}), FirstFile(dir))

\* getMigrationVersions(folder): the files of the folder, sorted by oldest to
\* newest
RECURSIVE getMigrationVersions(_)
getMigrationVersions(dir) ==
  IF dir = {} THEN <<>>
  ELSE <<FirstFile(dir)>> \o getMigrationVersions(dir \ {FirstFile(dir)})

\* store.getVersions: select version_id ... order by applied_at asc
getVersions(rows) == rows

\* store.insertVersion: insert into the table (version_id) values (version)
insertVersion(rows, version) == Append(rows, version)

\* store.deleteVersion: delete from the table where version_id = version
deleteVersion(rows, version) == SelectSeq(rows, LAMBDA v : v # version)

\* migration_versions.filter(version => !versions.some(v => v.version_id ===
\* version.version_id))
unapplied_versions(migration_versions, vs) ==
  SelectSeq(migration_versions,
            LAMBDA f : ~\E k \in 1..Len(vs) : vs[k] = f.version_id)

\* upByOneCommand taking the newest unapplied version
first_unapplied_version_Newest(unapplied) ==
  IF unapplied = <<>> THEN <<>> ELSE <<unapplied[Len(unapplied)]>>

\* const first_unapplied_version = unapplied_versions[0], as the list
\* upByOneCommand passes to getMigrations: empty when it is undefined
first_unapplied_version(unapplied) ==
  IF unapplied = <<>> THEN <<>> ELSE <<unapplied[1]>>

\* downCommand taking the first entry of versions
last_version_First(vs) == IF vs = <<>> THEN <<>> ELSE <<vs[1]>>

\* const last_version = versions[versions.length - 1], empty when undefined
last_version(vs) == IF vs = <<>> THEN <<>> ELSE <<vs[Len(vs)]>>

\* migration_versions.find(version => version.version_id === v), empty when
\* undefined
find(migration_versions, v) ==
  LET found == SelectSeq(migration_versions, LAMBDA f : f.version_id = v)
  IN IF found = <<>> THEN <<>> ELSE <<found[1]>>

\* getMigrations: the migration pushed for a file, from what parseSQLFile
\* returned; a ts file has no statements of its own
Migration(f, r, d) ==
  [type |-> f.type, version_id |-> f.version_id,
   statements |-> IF f.type = "sql" THEN r.statements ELSE <<>>,
   transaction |-> IF f.type = "sql" THEN r.transaction ELSE TRUE,
   direction |-> d]

\* the direction the command passes to getMigrations
DirectionOf(c) == IF c \in {"down", "down-to", "reset"} THEN "down" ELSE "up"

\* whether the try block of runMigration executes anything that can throw:
\* runSQLMigration calls the store when there are statements, runTSMigration
\* imports the file and calls its function
Executes(m) == m.type = "ts" \/ Len(m.statements) > 0

\* a call of the store, or of db.begin for a ts file, as the command's log
\* keeps it: the function, the version, whether the call threw
StoreCall(fn, version, threw) ==
  [fn |-> fn, version |-> version, threw |-> threw, transaction |-> TRUE, db |-> <<>>]

\* store.runMigration(db, statements, transaction), the calls it makes on db:
\* one db.begin whose callback executes every statement, or one db.unsafe
\* for each statement
storeRunMigration(sts, tx) ==
  IF tx THEN << [fn |-> "begin", statements |-> sts] >>
  ELSE [k \in 1..Len(sts) |-> [fn |-> "unsafe", statements |-> <<sts[k]>>]]

\* the call that executes the migration m: store.runMigration with the
\* statements and the flag of m for a sql migration, db.begin around the
\* function of the file for a ts migration
RunCall(m, threw) ==
  IF m.type = "sql"
    THEN [StoreCall("runMigration", m.version_id, threw) EXCEPT
            !.transaction = m.transaction,
            !.db = storeRunMigration(m.statements, m.transaction)]
  ELSE [StoreCall("begin", m.version_id, threw) EXCEPT
          !.db = << [fn |-> "begin", statements |-> <<>>] >>]

\* runMigration whose catch block logs the error and goes on
runMigrationTry_CatchGoesOn(m, threw) ==
  [cpc |-> "record", exitCode |-> NoExit]

\* runMigration, the try block and its catch: the migration ran, or the
\* error went to handleMigrationError, which exits
runMigrationTry(m, threw) ==
  IF threw THEN [cpc |-> "exited", exitCode |-> handleMigrationError]
  ELSE [cpc |-> "record", exitCode |-> NoExit]

\* the positions of a process that has ended or has not begun
Ended == {"idle", "returned", "exited", "rejected"}

\* a new process: no call of the parser has begun in it
NewProcess ==
  /\ calls' = 0
  /\ op' = "none"
  /\ direction' = "up"
  /\ content' = <<>>
  /\ pc' = "idle"
  /\ transaction' = TRUE
  /\ lines' = <<>>
  /\ ln' = 1
  /\ line' = <<>>
  /\ i' = 0
  /\ SetLocals(InitialLocals)
  /\ result' = NoResult
  /\ prior' = NoResult
  /\ UNCHANGED <<env, file>>
  /\ UNCHANGED cliVars

\* process.exit(code)
Exit(code) ==
  /\ cpc' = "exited"
  /\ exitCode' = code
  /\ loading' = <<>>
  /\ migrations' = <<>>

\* the command calls getMigrations with the files fs
Load(fs) ==
  /\ cpc' = "load"
  /\ exitCode' = NoExit
  /\ loading' = fs
  /\ migrations' = <<>>

\* upCommand from its entry to the call of getMigrations
upCommand ==
  /\ cpc \in Ended
  /\ NewProcess
  /\ command' = "up"
  /\ targetVersion' = 0
  /\ pending' = <<>>
  /\ table_exists' = TRUE
  /\ versions' = getVersions(appliedVersions)
  /\ storeCalls' = <<>>
  /\ LET unapplied == unapplied_versions(getMigrationVersions(migration_dir),
                                         getVersions(appliedVersions))
     IN IF unapplied = <<>> THEN Exit(SUCCESS) ELSE Load(unapplied)
  /\ UNCHANGED <<migration_dir, appliedVersions>>

\* upByOneCommand from its entry to the call of getMigrations
upByOneCommand ==
  /\ cpc \in Ended
  /\ NewProcess
  /\ command' = "up-by-one"
  /\ targetVersion' = 0
  /\ pending' = <<>>
  /\ table_exists' = TRUE
  /\ versions' = getVersions(appliedVersions)
  /\ storeCalls' = <<>>
  /\ LET unapplied == unapplied_versions(getMigrationVersions(migration_dir),
                                         getVersions(appliedVersions))
         first == first_unapplied_version(unapplied)
     IN IF first = <<>> THEN Exit(exitSuccess) ELSE Load(first)
  /\ UNCHANGED <<migration_dir, appliedVersions>>

\* downCommand from its entry to the call of getMigrations
downCommand ==
  /\ cpc \in Ended
  /\ NewProcess
  /\ command' = "down"
  /\ targetVersion' = 0
  /\ pending' = <<>>
  /\ storeCalls' = <<>>
  /\ IF ~table_exists
       THEN /\ Exit(handleError)
            /\ versions' = <<>>
     ELSE /\ versions' = getVersions(appliedVersions)
          /\ LET last == last_version(getVersions(appliedVersions))
                 last_unapplied_version ==
                   IF last = <<>> THEN <<>>
                   ELSE find(getMigrationVersions(migration_dir), last[1])
             IN IF last = <<>> THEN Exit(handleNoMigrations)
                ELSE IF last_unapplied_version = <<>> THEN Exit(handleNoMigrations)
                ELSE Load(last_unapplied_version)
  /\ UNCHANGED <<migration_dir, table_exists, appliedVersions>>

\* versions[versions.length - 1]?.version_id ?? 0n
current_version(vs) == IF vs = <<>> THEN 0 ELSE vs[Len(vs)]

\* upToCommand filtering by the recorded versions only
unapplied_up_to_NoBound(migration_versions, vs, t) ==
  unapplied_versions(migration_versions, vs)

\* upToCommand: the unapplied migrations up to and including the target
unapplied_up_to(migration_versions, vs, t) ==
  SelectSeq(migration_versions,
            LAMBDA f : /\ ~\E k \in 1..Len(vs) : vs[k] = f.version_id
                       /\ f.version_id <= t)

\* downToCommand rolling the target back too
to_rollback_FromTarget(vs, t) == SelectSeq(vs, LAMBDA v : v >= t)

\* downToCommand: versions.filter(v => v.version_id > targetVersion)
to_rollback(vs, t) == SelectSeq(vs, LAMBDA v : v > t)

\* downToCommand treating 0 as any other target
targetIsZero_Never(t) == FALSE

\* downToCommand: targetVersion === 0n
targetIsZero(t) == t = 0

\* a list from its last element to its first: for (let i = length - 1; i >= 0; i--)
Reverse(vs) == [k \in 1..Len(vs) |-> vs[Len(vs) + 1 - k]]

\* the command enters its rollback loop over the versions vs, last first
Rollback(vs) ==
  /\ cpc' = "next"
  /\ exitCode' = NoExit
  /\ pending' = Reverse(vs)
  /\ loading' = <<>>
  /\ migrations' = <<>>

\* resetCommand from its entry to its loop
reset ==
  /\ storeCalls' = <<>>
  /\ IF ~table_exists
       THEN /\ Exit(handleError)
            /\ versions' = <<>>
            /\ pending' = <<>>
     ELSE /\ versions' = getVersions(appliedVersions)
          /\ IF getVersions(appliedVersions) = <<>>
               THEN /\ Exit(exitSuccess)
                    /\ pending' = <<>>
             ELSE Rollback(getVersions(appliedVersions))
  /\ UNCHANGED <<migration_dir, table_exists, appliedVersions>>

resetCommand ==
  /\ cpc \in Ended
  /\ NewProcess
  /\ command' = "reset"
  /\ targetVersion' = 0
  /\ reset

\* upToCommand(targetVersion) from its entry to the call of getMigrations
upToCommand(t) ==
  /\ cpc \in Ended
  /\ NewProcess
  /\ command' = "up-to"
  /\ targetVersion' = t
  /\ pending' = <<>>
  /\ table_exists' = TRUE
  /\ versions' = getVersions(appliedVersions)
  /\ storeCalls' = <<>>
  /\ LET migration_versions == getMigrationVersions(migration_dir)
         vs == getVersions(appliedVersions)
         unapplied == unapplied_up_to(migration_versions, vs, t)
     IN IF find(migration_versions, t) = <<>> THEN Exit(handleError)
        ELSE IF current_version(vs) = t THEN Exit(exitSuccess)
        ELSE IF current_version(vs) > t THEN Exit(handleError)
        ELSE IF unapplied = <<>> THEN Exit(exitSuccess)
        ELSE Load(unapplied)
  /\ UNCHANGED <<migration_dir, appliedVersions>>

\* downToCommand(targetVersion) from its entry to its loop
downToCommand(t) ==
  /\ cpc \in Ended
  /\ NewProcess
  /\ command' = "down-to"
  /\ targetVersion' = t
  /\ IF targetIsZero(t) THEN reset
     ELSE /\ storeCalls' = <<>>
          /\ IF ~table_exists
               THEN /\ Exit(handleError)
                    /\ versions' = <<>>
                    /\ pending' = <<>>
             ELSE LET migration_versions == getMigrationVersions(migration_dir)
                      vs == getVersions(appliedVersions)
                  IN /\ versions' = vs
                     /\ IF vs = <<>> \/ current_version(vs) = t
                          THEN /\ Exit(exitSuccess)
                               /\ pending' = <<>>
                        ELSE IF \/ current_version(vs) < t
                                \/ find(migration_versions, t) = <<>>
                                \/ ~\E k \in 1..Len(vs) : vs[k] = t
                          THEN /\ Exit(handleError)
                               /\ pending' = <<>>
                        ELSE Rollback(to_rollback(vs, t))
          /\ UNCHANGED <<migration_dir, table_exists, appliedVersions>>

\* the rollback loop giving up at a version without a local file
NextRollback_MissingFileExits ==
  /\ cpc = "next"
  /\ IF pending = <<>>
       THEN /\ cpc' = "returned"
            /\ exitCode' = SUCCESS
            /\ UNCHANGED <<pending, loading, migrations>>
     ELSE LET migration_version == find(getMigrationVersions(migration_dir), Head(pending))
          IN /\ pending' = Tail(pending)
             /\ IF migration_version = <<>>
                  THEN Exit(handleError)
                ELSE Load(migration_version)
  /\ UNCHANGED <<migration_dir, table_exists, appliedVersions, command, targetVersion,
                 versions, storeCalls>>
  /\ UNCHANGED parserVars
  /\ UNCHANGED cliVars

\* one turn of the rollback loop of resetCommand and downToCommand: the
\* version without a local file is skipped, the file of the other goes to
\* getMigrations; after the last turn the command returns
NextRollback ==
  /\ cpc = "next"
  /\ IF pending = <<>>
       THEN /\ cpc' = "returned"
            /\ exitCode' = SUCCESS
            /\ UNCHANGED <<pending, loading, migrations>>
     ELSE LET migration_version == find(getMigrationVersions(migration_dir), Head(pending))
          IN /\ pending' = Tail(pending)
             /\ IF migration_version = <<>>
                  THEN UNCHANGED <<cpc, exitCode, loading, migrations>>
                ELSE Load(migration_version)
  /\ UNCHANGED <<migration_dir, table_exists, appliedVersions, command, targetVersion,
                 versions, storeCalls>>
  /\ UNCHANGED parserVars
  /\ UNCHANGED cliVars

\* getMigrations, a file with the extension ts: the migration is pushed; when
\* the last file is done getMigrations returns and the command goes on to
\* runMigration
LoadTSMigration ==
  /\ cpc = "load"
  /\ loading # <<>>
  /\ Head(loading).type = "ts"
  /\ migrations' = Append(migrations,
                          Migration(Head(loading), NoResult, DirectionOf(command)))
  /\ loading' = Tail(loading)
  /\ cpc' = IF Tail(loading) = <<>> THEN "run" ELSE "load"
  /\ UNCHANGED <<migration_dir, table_exists, appliedVersions, command, targetVersion,
                 versions, pending, storeCalls, exitCode>>
  /\ UNCHANGED parserVars
  /\ UNCHANGED cliVars

\* getMigrations, a file with the extension sql: parseSQLFile reads it and
\* calls parseSqlStatements(file_content, direction)
parseSQLFile ==
  /\ cpc = "load"
  /\ loading # <<>>
  /\ Head(loading).type = "sql"
  /\ pc = "idle"
  /\ parseSqlStatements(Head(loading).content, DirectionOf(command))

\* getMigrations after parseSQLFile: the migration is pushed with the
\* statements returned; what the parser threw leaves the command, and
\* main().catch exits with 1, or the catch block around upToCommand and
\* downToCommand calls handleVersionError
LoadSQLMigration ==
  /\ cpc = "load"
  /\ loading # <<>>
  /\ pc \in {"returned", "thrown"}
  /\ IF pc = "thrown"
       THEN /\ cpc' = "rejected"
            /\ exitCode' = IF command \in {"up-to", "down-to"} THEN handleVersionError
                           ELSE ERROR
            /\ loading' = <<>>
            /\ migrations' = <<>>
     ELSE /\ migrations' = Append(migrations,
                                  Migration(Head(loading), result, DirectionOf(command)))
          /\ loading' = Tail(loading)
          /\ cpc' = IF Tail(loading) = <<>> THEN "run" ELSE "load"
          /\ UNCHANGED exitCode
  /\ pc' = "idle"
  /\ UNCHANGED <<migration_dir, table_exists, appliedVersions, command, targetVersion,
                 versions, pending, storeCalls>>
  /\ UNCHANGED <<env, file, calls, op, direction, content, transaction, lines, ln, line,
                 i, statements, state, buf, haveBegunStatement, inSQ, inDQ, inLine,
                 inBlock, dollarTag, envOn, result, prior>>
  /\ UNCHANGED cliVars

\* runMigration, its try block: the statements of the migration, or the
\* function of its file, run and succeed or throw
RunMigration ==
  /\ cpc = "run"
  /\ migrations # <<>>
  /\ LET migration == Head(migrations)
     IN \E threw \in (IF Executes(migration) THEN BOOLEAN ELSE {FALSE}) :
          LET r == runMigrationTry(migration, threw)
          IN /\ cpc' = r.cpc
             /\ exitCode' = r.exitCode
             /\ storeCalls' =
                  IF Executes(migration)
                    THEN Append(storeCalls, RunCall(migration, threw))
                  ELSE storeCalls
  /\ UNCHANGED <<migration_dir, table_exists, appliedVersions, command, targetVersion,
                 versions, pending, loading, migrations>>
  /\ UNCHANGED parserVars
  /\ UNCHANGED cliVars

\* runMigration after its try block: the version is inserted or deleted; the
\* command then runs its next migration, goes to the next turn of its
\* rollback loop, or returns when there is none
RecordVersion ==
  /\ cpc = "record"
  /\ migrations # <<>>
  /\ LET migration == Head(migrations)
     IN IF migration.direction = "up"
          THEN /\ appliedVersions' = insertVersion(appliedVersions, migration.version_id)
               /\ storeCalls' = Append(storeCalls,
                                       StoreCall("insertVersion", migration.version_id, FALSE))
        ELSE /\ appliedVersions' = deleteVersion(appliedVersions, migration.version_id)
             /\ storeCalls' = Append(storeCalls,
                                     StoreCall("deleteVersion", migration.version_id, FALSE))
  /\ migrations' = Tail(migrations)
  /\ IF Tail(migrations) # <<>>
       THEN /\ cpc' = "run"
            /\ UNCHANGED exitCode
     ELSE IF command \in {"reset", "down-to"}
       THEN /\ cpc' = "next"
            /\ UNCHANGED exitCode
     ELSE /\ cpc' = "returned"
          /\ exitCode' = SUCCESS
  /\ UNCHANGED <<migration_dir, table_exists, command, targetVersion, versions, pending,
                 loading>>
  /\ UNCHANGED parserVars
  /\ UNCHANGED cliVars

\* no command has run: an empty directory, a database without the table
NoCommand ==
  /\ migration_dir = {}
  /\ table_exists = FALSE
  /\ appliedVersions = <<>>
  /\ command = "none"
  /\ cpc = "idle"
  /\ targetVersion = 0
  /\ versions = <<>>
  /\ pending = <<>>
  /\ loading = <<>>
  /\ migrations = <<>>
  /\ storeCalls = <<>>
  /\ exitCode = NoExit
  /\ argv = <<>>
  /\ handling = NoHandling
  /\ console = <<>>
  /\ peer = NoPeer

(***************************************************************************)
(*                    Inputs and specification: sections                   *)
(***************************************************************************)

\* most lines of a section the caller passes in
MaxLines == 3

StatementBeginLine ==
  <<"-", "-", " ", "+", "g", "o", "o", "s", "e", " ",
    "S", "t", "a", "t", "e", "m", "e", "n", "t", "B", "e", "g", "i", "n">>
StatementEndLine ==
  <<"-", "-", " ", "+", "g", "o", "o", "s", "e", " ",
    "S", "t", "a", "t", "e", "m", "e", "n", "t", "E", "n", "d">>

\* the lines a section is made of: two statements on a line, the openers and
\* closers of every quoting context, a comment line holding a semicolon, a
\* blank line, a doubled semicolon, the block directives
SectionLines ==
  { <<"a", ";", " ", "b">>,
    <<"'">>,
    <<"\"">>,
    <<"/", "*">>,
    <<"*", "/">>,
    <<"/", "*", "/">>,
    <<"$", "$">>,
    <<"-", "-", ";">>,
    <<"c", ";", ";">>,
    <<>>,
    StatementBeginLine,
    StatementEndLine }

\* every text of at most n lines drawn from ls
Texts(ls, n) == UNION {{Join(t) : t \in [1..k -> ls]} : k \in 0..n}

\* most lines between a StatementBegin line and its StatementEnd line
MaxBlockLines == 2

\* the lines of a block body: every line of a section but the block directives
BlockLines == SectionLines \ {StatementBeginLine, StatementEndLine}

\* a closed block of at most n body lines, alone or after a line that leaves
\* text in the buffer (the tail of "a; b")
BlockTexts(n) ==
  UNION {{Join(p \o <<StatementBeginLine>> \o t \o <<StatementEndLine>>) :
            t \in [1..k -> BlockLines], p \in {<<>>, << <<"a", ";", " ", "b">> >>}} :
         k \in 0..n}

DefaultEnv == [k \in {<<"V">>} |-> <<"v">>]

\* no call of the parser has begun
ParserIdle(f) ==
  /\ env = DefaultEnv
  /\ file = f
  /\ calls = 0
  /\ op = "none"
  /\ direction = "up"
  /\ content = <<>>
  /\ pc = "idle"
  /\ transaction = TRUE
  /\ lines = <<>>
  /\ ln = 1
  /\ line = <<>>
  /\ i = 0
  /\ statements = <<>>
  /\ state = NORMAL
  /\ buf = <<>>
  /\ haveBegunStatement = FALSE
  /\ inSQ = FALSE
  /\ inDQ = FALSE
  /\ inLine = FALSE
  /\ inBlock = FALSE
  /\ dollarTag = NullTag
  /\ envOn = FALSE
  /\ result = NoResult
  /\ prior = NoResult

Idle(f) ==
  /\ ParserIdle(f)
  /\ NoCommand

Init == \E f \in Texts(SectionLines, MaxLines) \cup BlockTexts(MaxBlockLines) : Idle(f)

Next == CallParse \/ ScanLineStart \/ ScanChar \/ ScanLineEnd \/ ParseFinish

Spec == Init /\ [][Next]_vars

(***************************************************************************)
(*                Inputs and specification: migration files                *)
(***************************************************************************)

\* a call that ends before it has any local state: the outcome r of a pure
\* function, or of a call that throws on entry
Outcome(name, c, r) ==
  /\ op' = name
  /\ calls' = calls + 1
  /\ content' = c
  /\ prior' = result
  /\ result' = r
  /\ pc' = r.status
  /\ UNCHANGED <<commandVars, env, file, direction, transaction, lines, ln, line, i, statements, state,
                 buf, haveBegunStatement, inSQ, inDQ, inLine, inBlock, dollarTag, envOn>>

\* validateMigrationFile(file)
CallValidate ==
  /\ pc = "idle"
  /\ LET v == validateMigrationFile(file, UP_COMMENT, DOWN_COMMENT)
     IN Outcome("validateMigrationFile", file,
                IF v.ok THEN ReturnedValue(<<>>) ELSE Thrown(v.error))

\* extractUpSection(file)
CallExtractUp ==
  /\ pc = "idle"
  /\ LET x == extractUpSection(file, UP_COMMENT, DOWN_COMMENT)
     IN Outcome("extractUpSection", file,
                IF x.ok THEN ReturnedValue(x.value) ELSE Thrown(x.error))

\* extractDownSection(file)
CallExtractDown ==
  /\ pc = "idle"
  /\ LET x == extractDownSection(file, DOWN_COMMENT, UP_COMMENT)
     IN Outcome("extractDownSection", file,
                IF x.ok THEN ReturnedValue(x.value) ELSE Thrown(x.error))

\* after parseSqlStatements(file, "up") has ended, the caller parses the
\* section it extracts itself: parseSqlStatements(extractUpSection(file), "up")
CallParseExtracted ==
  /\ pc \in {"returned", "thrown"}
  /\ calls = 1 /\ op = "parseSqlStatements" /\ direction = "up"
  /\ LET x == extractUpSection(file, UP_COMMENT, DOWN_COMMENT)
     IN IF x.ok THEN parseSqlStatements(x.value, "up")
        ELSE Outcome("extractUpSection", file, Thrown(x.error))

\* most lines of a migration file
MaxFileLines == 3

\* the lines a migration file is made of: the Up and Down markers, a Down
\* marker in lower case, the NO TRANSACTION directive in its two spellings
\* and in lower case, a statement, a blank line
FileLines ==
  { UP_COMMENT,
    DOWN_COMMENT,
    <<"-", "-", " ", "+", "g", "o", "o", "s", "e", " ", "d", "o", "w", "n">>,
    NO_TRANSACTION_COMMENT,
    NO_TRANSACTION_ALT,
    <<"-", "-", " ", "+", "g", "o", "o", "s", "e", " ",
      "n", "o", " ", "t", "r", "a", "n", "s", "a", "c", "t", "i", "o", "n">>,
    <<"a", ";">>,
    <<>> }

InitFile == \E f \in Texts(FileLines, MaxFileLines) : Idle(f)

NextFile ==
  \/ CallParse
  \/ CallParseDown
  \/ CallParseExtracted
  \/ CallValidate
  \/ CallExtractUp
  \/ CallExtractDown
  \/ ScanLineStart
  \/ ScanChar
  \/ ScanLineEnd
  \/ ParseFinish

SpecFile == InitFile /\ [][NextFile]_vars

(***************************************************************************)
(*          Inputs and specification: the spellings of the markers         *)
(***************************************************************************)

\* most lines of a file of marker spellings
MaxMarkerLines == 3

\* the Up and Down markers as the constants spell them, without the space
\* after "--", in lower case, and indented; two statements
MarkerSpellings ==
  { UP_COMMENT,
    DOWN_COMMENT,
    <<"-", "-", "+", "g", "o", "o", "s", "e", " ", "U", "p">>,
    <<"-", "-", "+", "g", "o", "o", "s", "e", " ", "D", "o", "w", "n">>,
    <<"-", "-", " ", "+", "g", "o", "o", "s", "e", " ", "u", "p">>,
    <<" ", " ">> \o UP_COMMENT,
    <<" ", " ">> \o DOWN_COMMENT,
    <<"a", ";">>,
    <<"b", ";">> }

InitMarkers == \E f \in Texts(MarkerSpellings, MaxMarkerLines) : Idle(f)

SpecMarkers == InitMarkers /\ [][NextFile]_vars

(***************************************************************************)
(*        Inputs and specification: directives and ENVSUB in a section     *)
(***************************************************************************)

\* most lines of a section of directives, after its optional Up marker
MaxEnvLines == 3

EnvsubOnLine ==
  <<"-", "-", " ", "+", "g", "o", "o", "s", "e", " ", "E", "N", "V", "S", "U", "B", " ",
    "O", "N">>
EnvsubOffLine ==
  <<"-", "-", " ", "+", "g", "o", "o", "s", "e", " ", "E", "N", "V", "S", "U", "B", " ",
    "O", "F", "F">>

\* the lines of such a section: the ENVSUB switches, NO TRANSACTION, a Down
\* marker in lower case (which the extraction leaves in the Up section), the
\* block directives, a reference to the variable V plain and after a
\* backslash, a line that leaves its statement open, a statement
EnvLines ==
  { EnvsubOnLine,
    EnvsubOffLine,
    NO_TRANSACTION_COMMENT,
    <<"-", "-", " ", "+", "g", "o", "o", "s", "e", " ", "d", "o", "w", "n">>,
    StatementBeginLine,
    StatementEndLine,
    <<"$", "{", "V", "}", ";">>,
    <<"\\", "$", "{", "V", "}", ";">>,
    <<"a">>,
    <<"b", ";">> }

\* a section of at most n lines, bare, after an Up marker, or as the body of
\* a StatementBegin block
EnvTexts(n) ==
  LET bodies == UNION {[1..k -> EnvLines] : k \in 0..n}
      inner == UNION {[1..k -> EnvLines \ {StatementBeginLine, StatementEndLine}] :
                      k \in 0..n}
  IN {Join(t) : t \in bodies}
       \cup {Join(<<UP_COMMENT>> \o t) : t \in bodies}
       \cup {Join(<<StatementBeginLine>> \o t \o <<StatementEndLine>>) : t \in inner}

InitEnv == \E f \in EnvTexts(MaxEnvLines) : Idle(f)

SpecEnv == InitEnv /\ [][Next]_vars

(***************************************************************************)
(*          Specification: a call with a direction that is no direction    *)
(***************************************************************************)

\* type MigrationDirection = "up" | "down"
Directions == {"up", "down"}

\* values a caller can pass at run time that the type does not hold
OtherDirections == {"sideways", ""}

\* parseSqlStatements(file, d) with d outside the type
CallParseOther ==
  /\ pc = "idle"
  /\ \E d \in OtherDirections : parseSqlStatements(file, d)

NextDirection ==
  \/ CallParseOther
  \/ ScanLineStart
  \/ ScanChar
  \/ ScanLineEnd
  \/ ParseFinish

SpecDirection == InitFile /\ [][NextDirection]_vars

(***************************************************************************)
(*                  Specification: one call after another                  *)
(***************************************************************************)

\* most calls the caller makes
MaxCalls == 2

\* the texts the caller passes: one that leaves ENVSUB on, a reference to V, a
\* block left open (the call throws inside IN_BLOCK), a quote, a block comment
\* and a dollar quote left open, a statement left in the buffer, a migration
\* file
CallTexts ==
  { Join(<<EnvsubOnLine, <<"$", "{", "V", "}", ";">> >>),
    <<"$", "{", "V", "}", ";">>,
    Join(<<StatementBeginLine, <<"a", ";">> >>),
    <<"'", "a", ";">>,
    <<"/", "*", "a", ";">>,
    <<"$", "$", "a", ";">>,
    Join(<< <<"a", ";">>, <<"b">> >>),
    Join(<<UP_COMMENT, <<"a", ";">>, DOWN_COMMENT, <<"b", ";">> >>) }

\* after a call has ended the caller takes up another text, or the same
NextInput ==
  /\ pc \in {"returned", "thrown"}
  /\ calls < MaxCalls
  /\ file' \in CallTexts
  /\ pc' = "idle"
  /\ UNCHANGED <<commandVars, env, calls, op, direction, content, transaction, lines, ln, line, i,
                 statements, state, buf, haveBegunStatement, inSQ, inDQ, inLine, inBlock,
                 dollarTag, envOn, result, prior>>

InitCalls == \E f \in CallTexts : Idle(f)

NextCalls ==
  \/ CallParse
  \/ CallParseDown
  \/ CallExtractUp
  \/ CallExtractDown
  \/ ScanLineStart
  \/ ScanChar
  \/ ScanLineEnd
  \/ ParseFinish
  \/ NextInput

SpecCalls == InitCalls /\ [][NextCalls]_vars

(***************************************************************************)
(*           Inputs and specification: the ENVSUB switch                   *)
(***************************************************************************)

\* most lines of a section that switches ENVSUB
MaxEnvsubLines == 4

\* a reference to U, a variable that is not set, in front of a statement
UnsetReferenceLine == <<"$", "{", "U", "}", "b", ";">>

\* the lines of such a section: the two switches, the block directives, a
\* reference to the variable V, a reference to the unset variable U, a
\* statement without a reference
EnvsubLines ==
  { EnvsubOnLine,
    EnvsubOffLine,
    StatementBeginLine,
    StatementEndLine,
    <<"$", "{", "V", "}", ";">>,
    UnsetReferenceLine,
    <<"a", ";">> }

\* after a call has ended the caller parses a reference to V
NextReference ==
  /\ pc \in {"returned", "thrown"}
  /\ calls < MaxCalls
  /\ file' = <<"$", "{", "V", "}", ";">>
  /\ pc' = "idle"
  /\ UNCHANGED <<commandVars, env, calls, op, direction, content, transaction, lines, ln, line, i,
                 statements, state, buf, haveBegunStatement, inSQ, inDQ, inLine, inBlock,
                 dollarTag, envOn, result, prior>>

InitEnvsub == \E f \in Texts(EnvsubLines, MaxEnvsubLines) : Idle(f)

NextEnvsub ==
  \/ CallParse
  \/ ScanLineStart
  \/ ScanChar
  \/ ScanLineEnd
  \/ ParseFinish
  \/ NextReference

SpecEnvsub == InitEnvsub /\ [][NextEnvsub]_vars

(***************************************************************************)
(*              Inputs and specification: quoted literals                  *)
(***************************************************************************)

\* most characters of a line of quoted text
MaxQuoteChars == 5

\* most characters of each line of a text of two lines
MaxQuoteLineChars == 2

\* the characters of such a text: the two quotes, the terminator, a letter
QuoteChars == {"'", "\"", ";", "a"}

\* the lines of at most n of these characters
QuoteLines(n) == UNION {[1..k -> QuoteChars] : k \in 0..n}

\* one line, or two shorter lines: a literal left open on the first
QuoteTexts ==
  QuoteLines(MaxQuoteChars)
    \cup {Join(<<a, b>>) : a, b \in QuoteLines(MaxQuoteLineChars)}

InitQuotes == \E f \in QuoteTexts : Idle(f)

SpecQuotes == InitQuotes /\ [][Next]_vars

(***************************************************************************)
(*             Inputs and specification: dollar-quoted bodies              *)
(***************************************************************************)

\* most tokens of a line of a text with dollar quotes
MaxDollarTokens == 2

\* most lines of such a text when each is one token
MaxDollarLines == 3

\* what such a text is made of: the empty tag and two named ones, the two
\* quotes, the comment markers, the terminator, a letter, a directive
DollarTokens ==
  { <<"$", "$">>, <<"$", "t", "$">>, <<"$", "o", "$">>, <<"'">>, <<"\"">>,
    <<"-", "-">>, <<"/", "*">>, <<";">>, <<"a">>, StatementBeginLine }

RECURSIVE Concat(_)
Concat(ts) == IF ts = <<>> THEN <<>> ELSE Head(ts) \o Concat(Tail(ts))

\* the lines of at most n tokens
DollarLines(n) == {Concat(ts) : ts \in UNION {[1..k -> DollarTokens] : k \in 0..n}}

\* two lines of tokens, or several lines of one token
DollarTexts ==
  {Join(<<a, b>>) : a, b \in DollarLines(MaxDollarTokens)}
    \cup Texts(DollarTokens, MaxDollarLines)

InitDollar == \E f \in DollarTexts : Idle(f)

SpecDollar == InitDollar /\ [][Next]_vars

(***************************************************************************)
(*                 Inputs and specification: the commands                  *)
(***************************************************************************)

\* the highest version_id of a migration
MaxVersion == 3

\* a migration with a statement each way
MigrationText == Join(<<UP_COMMENT, <<"a", ";">>, DOWN_COMMENT, <<"b", ";">> >>)

\* an empty migration
EmptyMigrationText == Join(<<UP_COMMENT, <<>>, DOWN_COMMENT, <<>> >>)

\* a migration whose Up section opens a block and never closes it
UnclosedMigrationText ==
  Join(<<UP_COMMENT, StatementBeginLine, <<"a", ";">>, DOWN_COMMENT, <<"b", ";">> >>)

\* what a migration file is: its extension and its text
FileKinds ==
  { [type |-> "sql", content |-> MigrationText],
    [type |-> "sql", content |-> EmptyMigrationText],
    [type |-> "sql", content |-> UnclosedMigrationText],
    [type |-> "ts", content |-> <<>>] }

\* the directories: at most one file of each version
MigrationDirs ==
  UNION {{{[version_id |-> v, type |-> k[v].type, content |-> k[v].content] : v \in S} :
            k \in [S -> FileKinds]} :
         S \in SUBSET (1..MaxVersion)}

\* the tables: rows of distinct versions, applied in any order
AppliedLists ==
  {rows \in UNION {[1..n -> 1..MaxVersion] : n \in 0..MaxVersion} :
     \A j, k \in 1..Len(rows) : rows[j] = rows[k] => j = k}

InitCommands ==
  /\ ParserIdle(<<>>)
  /\ migration_dir \in MigrationDirs
  /\ appliedVersions \in AppliedLists
  /\ table_exists \in BOOLEAN
  /\ appliedVersions # <<>> => table_exists
  /\ command = "none"
  /\ cpc = "idle"
  /\ targetVersion = 0
  /\ versions = <<>>
  /\ pending = <<>>
  /\ loading = <<>>
  /\ migrations = <<>>
  /\ storeCalls = <<>>
  /\ exitCode = NoExit
  /\ argv = <<>>
  /\ handling = NoHandling
  /\ console = <<>>
  /\ peer = NoPeer

NextCommands ==
  \/ upCommand
  \/ upByOneCommand
  \/ downCommand
  \/ LoadTSMigration
  \/ parseSQLFile
  \/ ScanLineStart
  \/ ScanChar
  \/ ScanLineEnd
  \/ ParseFinish
  \/ LoadSQLMigration
  \/ RunMigration
  \/ RecordVersion

SpecCommands == InitCommands /\ [][NextCommands]_vars

(***************************************************************************)
(*          Inputs and specification: the commands with a target           *)
(***************************************************************************)

\* a migration whose Down section opens a block and never closes it
UnclosedDownText ==
  Join(<<UP_COMMENT, <<"a", ";">>, DOWN_COMMENT, StatementBeginLine, <<"b", ";">> >>)

\* the files of the commands that take a target: a migration with a
\* statement each way, an empty one, one that cannot be rolled back, a ts file
TargetFileKinds ==
  { [type |-> "sql", content |-> MigrationText],
    [type |-> "sql", content |-> EmptyMigrationText],
    [type |-> "sql", content |-> UnclosedDownText],
    [type |-> "ts", content |-> <<>>] }

InitTargets ==
  /\ ParserIdle(<<>>)
  /\ migration_dir \in
       UNION {{{[version_id |-> v, type |-> k[v].type, content |-> k[v].content] : v \in S} :
                 k \in [S -> TargetFileKinds]} :
              S \in SUBSET (1..MaxVersion)}
  /\ appliedVersions \in AppliedLists
  /\ table_exists \in BOOLEAN
  /\ appliedVersions # <<>> => table_exists
  /\ command = "none"
  /\ cpc = "idle"
  /\ targetVersion = 0
  /\ versions = <<>>
  /\ pending = <<>>
  /\ loading = <<>>
  /\ migrations = <<>>
  /\ storeCalls = <<>>
  /\ exitCode = NoExit
  /\ argv = <<>>
  /\ handling = NoHandling
  /\ console = <<>>
  /\ peer = NoPeer

NextTargets ==
  \/ resetCommand
  \/ \E t \in 0..MaxVersion : upToCommand(t)
  \/ \E t \in 0..MaxVersion : downToCommand(t)
  \/ NextRollback
  \/ LoadTSMigration
  \/ parseSQLFile
  \/ ScanLineStart
  \/ ScanChar
  \/ ScanLineEnd
  \/ ParseFinish
  \/ LoadSQLMigration
  \/ RunMigration
  \/ RecordVersion

SpecTargets == InitTargets /\ [][NextTargets]_vars

(***************************************************************************)
(*         Inputs and specification: the transaction flag of a file        *)
(***************************************************************************)

\* the NO TRANSACTION directive in lower case
NoTransactionLowerLine ==
  <<"-", "-", " ", "+", "g", "o", "o", "s", "e", " ",
    "n", "o", " ", "t", "r", "a", "n", "s", "a", "c", "t", "i", "o", "n">>

\* the files of a command that mixes flags: a migration as it is, with the
\* NO TRANSACTION directive on top, with that directive in lower case, with
\* the directive below the Up marker, and a ts file
TransactionFileKinds ==
  { [type |-> "sql", content |-> MigrationText],
    [type |-> "sql", content |-> Join(<<NO_TRANSACTION_COMMENT>>) \o <<"\n">> \o MigrationText],
    [type |-> "sql", content |-> Join(<<NoTransactionLowerLine>>) \o <<"\n">> \o MigrationText],
    [type |-> "sql",
     content |-> Join(<<UP_COMMENT, NO_TRANSACTION_COMMENT, <<"a", ";">>, <<"c", ";">>,
                        DOWN_COMMENT, <<"b", ";">> >>)],
    [type |-> "ts", content |-> <<>>] }

InitTransaction ==
  /\ ParserIdle(<<>>)
  /\ migration_dir \in
       UNION {{{[version_id |-> v, type |-> k[v].type, content |-> k[v].content] : v \in S} :
                 k \in [S -> TransactionFileKinds]} :
              S \in SUBSET (1..MaxVersion)}
  /\ appliedVersions \in AppliedLists
  /\ table_exists = TRUE
  /\ command = "none"
  /\ cpc = "idle"
  /\ targetVersion = 0
  /\ versions = <<>>
  /\ pending = <<>>
  /\ loading = <<>>
  /\ migrations = <<>>
  /\ storeCalls = <<>>
  /\ exitCode = NoExit
  /\ argv = <<>>
  /\ handling = NoHandling
  /\ console = <<>>
  /\ peer = NoPeer

SpecTransaction == InitTransaction /\ [][NextCommands]_vars

(***************************************************************************)
(*                            The error handler                            *)
(***************************************************************************)

\* a property of an ErrorContext: its type and what a template literal
\* makes of it; "absent" is a key the object does not have
Absent == [type |-> "absent", text |-> ""]
Undefined == [type |-> "undefined", text |-> ""]
String(t) == [type |-> "string", text |-> t]
BigIntValue(t) == [type |-> "bigint", text |-> t]
ErrorObject(t) == [type |-> "Error", text |-> t]

\* the conversion of a property to a boolean by if (...): undefined, 0n and
\* "" are falsy
Truthy(v) ==
  /\ v.type \notin {"absent", "undefined"}
  /\ ~(v.type = "bigint" /\ v.text = "0")
  /\ ~(v.type = "string" /\ v.text = "")

\* the keys of interface ErrorContext the handler reads
ContextKeys == {"command", "version", "fileName", "tableName", "originalError"}

\* context: ErrorContext = {}
EmptyContext == [k \in ContextKeys |-> Absent]

\* Object.assign(target, source): the own properties of source are written
\* over those of target, the undefined ones too
ObjectAssign(target, source) ==
  [k \in ContextKeys |-> IF source[k].type = "absent" THEN target[k] ELSE source[k]]

\* one piece of a logged text: what a template literal puts before the
\* message for a key, or the message itself
Part(label, value) == [label |-> label, value |-> value]

\* handleError, the four if statements with the table prefix added first
addContext_TableFirst(message, context) ==
  LET m1 == IF Truthy(context.tableName)
              THEN <<Part("Table", context.tableName.text)>> \o message ELSE message
      m2 == IF Truthy(context.fileName)
              THEN <<Part("File", context.fileName.text)>> \o m1 ELSE m1
      m3 == IF Truthy(context.version)
              THEN <<Part("Version", context.version.text)>> \o m2 ELSE m2
  IN IF Truthy(context.command)
       THEN <<Part("Command", context.command.text)>> \o m3 ELSE m3

\* handleError, "Add context information to the message": each if statement
\* wraps the message built so far
addContext(message, context) ==
  LET m1 == IF Truthy(context.command)
              THEN <<Part("Command", context.command.text)>> \o message ELSE message
      m2 == IF Truthy(context.version)
              THEN <<Part("Version", context.version.text)>> \o m1 ELSE m1
      m3 == IF Truthy(context.fileName)
              THEN <<Part("File", context.fileName.text)>> \o m2 ELSE m2
  IN IF Truthy(context.tableName)
       THEN <<Part("Table", context.tableName.text)>> \o m3 ELSE m3

\* new GooseError(message, exitCode, context)
GooseError(message, code, context) ==
  [kind |-> "GooseError", message |-> message, exitCode |-> code, context |-> context]

\* a string passed as the error
StringError(message) ==
  [kind |-> "string", message |-> message, exitCode |-> ERROR, context |-> EmptyContext]

\* new Error(message)
PlainError(message) ==
  [kind |-> "Error", message |-> message, exitCode |-> ERROR, context |-> EmptyContext]

\* handleError, the first if statement: let exitCode
exitCodeOf(error) == IF error.kind = "GooseError" THEN error.exitCode ELSE ERROR

\* handleError, the first if statement: let message
messageOf(error) ==
  IF error.kind = "Error" /\ error.message = "" THEN "Unknown error occurred"
  ELSE error.message

\* handleError, the first if statement: the context after Object.assign
contextOf(error, context) ==
  IF error.kind = "GooseError" THEN ObjectAssign(context, error.context) ELSE context

\* handleError(error, context), the two calls of console.error: the lines
\* logged; originalError is an object other than error
logged(error, context) ==
  LET merged == contextOf(error, context)
      first == <<Part("Error", "")>>
                 \o addContext(<<Part("message", messageOf(error))>>, merged)
  IN IF Truthy(merged.originalError)
       THEN <<first, <<Part("Details", merged.originalError.text)>>>>
     ELSE <<first>>

\* handleError(error, context): the lines are logged and process.exit is
\* called with exitCode
HandleError(error, context) ==
  /\ console' = console \o logged(error, context)
  /\ cpc' = "exited"
  /\ exitCode' = exitCodeOf(error)

\* what the handlers leave alone
HandlerFrame ==
  /\ UNCHANGED <<migration_dir, table_exists, appliedVersions, command, targetVersion,
                 versions, pending, loading, migrations, storeCalls>>
  /\ UNCHANGED <<argv, handling, peer>>
  /\ UNCHANGED parserVars

\* a call handleError(error, context)
CallHandleError ==
  /\ cpc = "handler"
  /\ handling.handler = "handleError"
  /\ HandleError(handling.error, handling.context)
  /\ HandlerFrame

\* a call handleInvalidArgument(message, context)
CallHandleInvalidArgument ==
  /\ cpc = "handler"
  /\ handling.handler = "handleInvalidArgument"
  /\ HandleError(GooseError(handling.message, INVALID_ARGUMENT, handling.context),
                 EmptyContext)
  /\ HandlerFrame

\* a call handleNoMigrations(context)
CallHandleNoMigrations ==
  /\ cpc = "handler"
  /\ handling.handler = "handleNoMigrations"
  /\ HandleError(GooseError("No migrations found", NO_MIGRATIONS, handling.context),
                 EmptyContext)
  /\ HandlerFrame

\* a call handleMigrationError(message, context)
CallHandleMigrationError ==
  /\ cpc = "handler"
  /\ handling.handler = "handleMigrationError"
  /\ HandleError(GooseError(handling.message, MIGRATION_ERROR, handling.context),
                 EmptyContext)
  /\ HandlerFrame

\* a call handleDatabaseError(message, context)
CallHandleDatabaseError ==
  /\ cpc = "handler"
  /\ handling.handler = "handleDatabaseError"
  /\ HandleError(GooseError(handling.message, DATABASE_ERROR, handling.context),
                 EmptyContext)
  /\ HandlerFrame

\* a call handleVersionError(version, context): the message quotes the
\* version, and the context handed on is { ...context, version }
CallHandleVersionError ==
  /\ cpc = "handler"
  /\ handling.handler = "handleVersionError"
  /\ HandleError(GooseError("Invalid version \"" \o handling.version \o "\"", INVALID_ARGUMENT,
                            [handling.context EXCEPT !.version = String(handling.version)]),
                 EmptyContext)
  /\ HandlerFrame

(***************************************************************************)
(*              Inputs and specification: the error handler                *)
(***************************************************************************)

\* the messages of the errors handed over: none, and the one of the tests
ErrorMessages == {"", "Database error"}

\* enum ExitCode, its values
ExitCodes == {SUCCESS, ERROR, INVALID_ARGUMENT, NO_MIGRATIONS, MIGRATION_ERROR,
              DATABASE_ERROR}

\* the contexts handed over: every key is missing, falsy or set
Contexts ==
  [command : {Absent, String("up")},
   version : {Absent, Undefined, BigIntValue("0"), BigIntValue("123")},
   fileName : {Absent, String(""), String("001.sql")},
   tableName : {Absent, String("migrations")},
   originalError : {Absent, ErrorObject("cause")}]

\* the errors handleError is called with
Errors ==
  {StringError(m) : m \in ErrorMessages} \cup {PlainError(m) : m \in ErrorMessages}
    \cup {GooseError(m, c, x) : m \in ErrorMessages, c \in ExitCodes, x \in Contexts}

\* the VERSION arguments handleVersionError is called with
HandledVersions == {"", "abc"}

\* the calls of the handlers
HandlerCalls ==
  [handler : {"handleError"}, error : Errors, context : Contexts]
    \cup [handler : {"handleInvalidArgument", "handleMigrationError", "handleDatabaseError"},
          message : ErrorMessages, context : Contexts]
    \cup [handler : {"handleNoMigrations"}, context : Contexts]
    \cup [handler : {"handleVersionError"}, version : HandledVersions, context : Contexts]

\* a process at the call of a handler
InitErrors ==
  /\ ParserIdle(<<>>)
  /\ migration_dir = {}
  /\ table_exists = FALSE
  /\ appliedVersions = <<>>
  /\ command = "none"
  /\ cpc = "handler"
  /\ targetVersion = 0
  /\ versions = <<>>
  /\ pending = <<>>
  /\ loading = <<>>
  /\ migrations = <<>>
  /\ storeCalls = <<>>
  /\ exitCode = NoExit
  /\ argv = <<>>
  /\ console = <<>>
  /\ peer = NoPeer
  /\ handling \in HandlerCalls

NextErrors ==
  \/ CallHandleError
  \/ CallHandleInvalidArgument
  \/ CallHandleNoMigrations
  \/ CallHandleMigrationError
  \/ CallHandleDatabaseError
  \/ CallHandleVersionError

SpecErrors == InitErrors /\ [][NextErrors]_vars

(***************************************************************************)
(*            Inputs and specification: lines inside a literal             *)
(***************************************************************************)

\* most lines of a text with a literal that spans lines
MaxLiteralLines == 3

\* the lines of such a text: a literal opened after the ';' of a statement
\* or on a line of its own, a blank line, a comment line, and the closers
LiteralLines ==
  { <<"a", ";", "'">>,
    <<"a", ";", "\"">>,
    <<"a", ";", "$", "$">>,
    <<"'">>,
    <<"\"">>,
    <<"$", "$">>,
    <<>>,
    <<"-", "-", "x">>,
    <<"b", "'", ";">>,
    <<"b", "\"", ";">>,
    <<"b", "$", "$", ";">> }

InitLiterals == \E f \in Texts(LiteralLines, MaxLiteralLines) : Idle(f)

SpecLiterals == InitLiterals /\ [][Next]_vars

(***************************************************************************)
(*       Inputs and specification: the values of the environment           *)
(***************************************************************************)

\* most lines of a section parsed under two environments
MaxValueLines == 3

\* the lines of such a section: the two switches, a statement that is a
\* reference to V, a statement without a reference
ValueLines ==
  { EnvsubOnLine,
    EnvsubOffLine,
    <<"$", "{", "V", "}", ";">>,
    <<"a", ";">> }

\* the values V is set to: a word, another word, a terminator, two statements
EnvValues == { <<"v">>, <<"w">>, <<";">>, <<"x", ";", "y">> }

\* the environments: V is set in each, to one of the values
Environments == [{<<"V">>} -> EnvValues]

\* between two calls the caller sets V anew and parses the same text again
SetEnv ==
  /\ pc \in {"returned", "thrown"}
  /\ calls < MaxCalls
  /\ env' \in Environments
  /\ pc' = "idle"
  /\ UNCHANGED <<commandVars, file, calls, op, direction, content, transaction, lines, ln, line, i,
                 statements, state, buf, haveBegunStatement, inSQ, inDQ, inLine, inBlock,
                 dollarTag, envOn, result, prior>>

\* V is set to the word of the default environment before the first call
InitValues == \E f \in Texts(ValueLines, MaxValueLines) : Idle(f)

NextValues ==
  \/ CallParse
  \/ ScanLineStart
  \/ ScanChar
  \/ ScanLineEnd
  \/ ParseFinish
  \/ SetEnv

SpecValues == InitValues /\ [][NextValues]_vars

(***************************************************************************)
(*        Inputs and specification: a store whose calls may fail           *)
(***************************************************************************)

\* runMigration after its try block when store.insertVersion or
\* store.deleteVersion throws: no row is written, the promise of the
\* command rejects, and main().catch exits with 1
RecordVersionThrows ==
  /\ cpc = "record"
  /\ migrations # <<>>
  /\ storeCalls' =
       Append(storeCalls,
              StoreCall(IF Head(migrations).direction = "up" THEN "insertVersion"
                        ELSE "deleteVersion",
                        Head(migrations).version_id, TRUE))
  /\ cpc' = "rejected"
  /\ exitCode' = IF command \in {"up-to", "down-to"} THEN handleVersionError ELSE ERROR
  /\ loading' = <<>>
  /\ migrations' = <<>>
  /\ UNCHANGED <<migration_dir, table_exists, appliedVersions, command, targetVersion,
                 versions, pending>>
  /\ UNCHANGED parserVars
  /\ UNCHANGED cliVars

NextStore ==
  \/ upCommand
  \/ upByOneCommand
  \/ downCommand
  \/ LoadTSMigration
  \/ parseSQLFile
  \/ ScanLineStart
  \/ ScanChar
  \/ ScanLineEnd
  \/ ParseFinish
  \/ LoadSQLMigration
  \/ RunMigration
  \/ RecordVersion
  \/ RecordVersionThrows

SpecStore == InitCommands /\ [][NextStore]_vars

(***************************************************************************)
(*     Inputs and specification: two processes on the same database        *)
(***************************************************************************)

\* what a process holds of its command: all of the command layer but the
\* directory and the database, which the two processes share
Registers ==
  [command |-> command, cpc |-> cpc, targetVersion |-> targetVersion,
   versions |-> versions, pending |-> pending, loading |-> loading,
   migrations |-> migrations, storeCalls |-> storeCalls, exitCode |-> exitCode]

\* a process that has not begun its command
NewRegisters ==
  [command |-> "none", cpc |-> "idle", targetVersion |-> 0, versions |-> <<>>,
   pending |-> <<>>, loading |-> <<>>, migrations |-> <<>>, storeCalls |-> <<>>,
   exitCode |-> NoExit]

\* the process that runs is at an await, or has ended, and the other
\* process goes on: the calls of the parser are synchronous, so no process
\* is left in the middle of one
Yield ==
  /\ pc = "idle"
  /\ peer # NoPeer
  /\ peer' = Registers
  /\ command' = peer.command
  /\ cpc' = peer.cpc
  /\ targetVersion' = peer.targetVersion
  /\ versions' = peer.versions
  /\ pending' = peer.pending
  /\ loading' = peer.loading
  /\ migrations' = peer.migrations
  /\ storeCalls' = peer.storeCalls
  /\ exitCode' = peer.exitCode
  /\ UNCHANGED <<migration_dir, table_exists, appliedVersions, argv, handling, console>>
  /\ UNCHANGED parserVars

\* the process runs upCommand, the one command it is started for
StartUp ==
  /\ command = "none"
  /\ upCommand

\* two processes are started on a directory and a table
InitPeers ==
  /\ ParserIdle(<<>>)
  /\ migration_dir \in MigrationDirs
  /\ appliedVersions \in AppliedLists
  /\ table_exists \in BOOLEAN
  /\ appliedVersions # <<>> => table_exists
  /\ command = "none"
  /\ cpc = "idle"
  /\ targetVersion = 0
  /\ versions = <<>>
  /\ pending = <<>>
  /\ loading = <<>>
  /\ migrations = <<>>
  /\ storeCalls = <<>>
  /\ exitCode = NoExit
  /\ argv = <<>>
  /\ handling = NoHandling
  /\ console = <<>>
  /\ peer = NewRegisters

NextPeers ==
  \/ StartUp
  \/ Yield
  \/ LoadTSMigration
  \/ parseSQLFile
  \/ ScanLineStart
  \/ ScanChar
  \/ ScanLineEnd
  \/ ParseFinish
  \/ LoadSQLMigration
  \/ RunMigration
  \/ RecordVersion

SpecPeers == InitPeers /\ [][NextPeers]_vars

(***************************************************************************)
(*      Inputs and specification: files added between the commands         *)
(***************************************************************************)

\* the files written into the directory: a migration with a statement each
\* way, a ts file
AddedFileKinds ==
  { [type |-> "sql", content |-> MigrationText],
    [type |-> "ts", content |-> <<>>] }

\* between two commands a migration file of a version the directory does
\* not hold yet is written into it
AddFile ==
  /\ cpc \in Ended
  /\ \E v \in 1..MaxVersion, k \in AddedFileKinds :
       /\ \A f \in migration_dir : f.version_id # v
       /\ migration_dir' =
            migration_dir \cup {[version_id |-> v, type |-> k.type, content |-> k.content]}
  /\ UNCHANGED <<table_exists, appliedVersions, command, cpc, targetVersion, versions,
                 pending, loading, migrations, storeCalls, exitCode>>
  /\ UNCHANGED parserVars
  /\ UNCHANGED cliVars

\* a new database and an empty directory
InitFiles ==
  /\ ParserIdle(<<>>)
  /\ migration_dir = {}
  /\ appliedVersions = <<>>
  /\ table_exists = FALSE
  /\ command = "none"
  /\ cpc = "idle"
  /\ targetVersion = 0
  /\ versions = <<>>
  /\ pending = <<>>
  /\ loading = <<>>
  /\ migrations = <<>>
  /\ storeCalls = <<>>
  /\ exitCode = NoExit
  /\ argv = <<>>
  /\ handling = NoHandling
  /\ console = <<>>
  /\ peer = NoPeer

NextFiles ==
  \/ AddFile
  \/ upCommand
  \/ upByOneCommand
  \/ downCommand
  \/ resetCommand
  \/ \E t \in 0..MaxVersion : upToCommand(t)
  \/ \E t \in 0..MaxVersion : downToCommand(t)
  \/ NextRollback
  \/ LoadTSMigration
  \/ parseSQLFile
  \/ ScanLineStart
  \/ ScanChar
  \/ ScanLineEnd
  \/ ParseFinish
  \/ LoadSQLMigration
  \/ RunMigration
  \/ RecordVersion

SpecFiles == InitFiles /\ [][NextFiles]_vars

(***************************************************************************)
(*                        The command line interface                       *)
(***************************************************************************)

\* the value of a digit of a literal, 16 for any other character
DigitValue(c) ==
  CASE c = "0" -> 0 [] c = "1" -> 1 [] c = "2" -> 2 [] c = "3" -> 3 [] c = "4" -> 4
    [] c = "5" -> 5 [] c = "6" -> 6 [] c = "7" -> 7 [] c = "8" -> 8 [] c = "9" -> 9
    [] c \in {"a", "A"} -> 10 [] c \in {"b", "B"} -> 11 [] c \in {"c", "C"} -> 12
    [] c \in {"d", "D"} -> 13 [] c \in {"e", "E"} -> 14 [] c \in {"f", "F"} -> 15
    [] OTHER -> 16

\* the digits s are those of a literal in the base
IsLiteral(s, base) == s # <<>> /\ \A k \in 1..Len(s) : DigitValue(s[k]) < base

\* the number the digits s write in the base
RECURSIVE LiteralValue(_, _)
LiteralValue(s, base) ==
  IF s = <<>> THEN 0
  ELSE LiteralValue(SubSeq(s, 1, Len(s) - 1), base) * base + DigitValue(s[Len(s)])

\* what BigInt throws for a string that is no integer literal
NotAnInteger == [ok |-> FALSE, value |-> 0]

\* BigInt(s) for a string s: white space is trimmed; the empty string is 0n;
\* decimal digits with an optional sign, or digits after 0x, 0o or 0b, are
\* their value; anything else throws a SyntaxError
BigInt(s) ==
  LET t == Trim(s)
      digits == IF t # <<>> /\ t[1] \in {"+", "-"} THEN Tail(t) ELSE t
      base == IF Len(t) < 2 \/ t[1] # "0" THEN 10
              ELSE IF t[2] \in {"x", "X"} THEN 16
              ELSE IF t[2] \in {"o", "O"} THEN 8
              ELSE IF t[2] \in {"b", "B"} THEN 2
              ELSE 10
  IN IF t = <<>> THEN [ok |-> TRUE, value |-> 0]
     ELSE IF base # 10
       THEN IF IsLiteral(Slice(t, 2), base)
              THEN [ok |-> TRUE, value |-> LiteralValue(Slice(t, 2), base)]
            ELSE NotAnInteger
     ELSE IF IsLiteral(digits, 10)
       THEN [ok |-> TRUE,
             value |-> IF t[1] = "-" THEN 0 - LiteralValue(digits, 10)
                       ELSE LiteralValue(digits, 10)]
     ELSE NotAnInteger

\* the VERSION arguments of the command line: integers, one inside white
\* space, one in hexadecimal, a negative one, a word, a fraction, nothing
VersionArguments == {"1", " 2 ", "0x3", "-1", "abc", "1.5", ""}

\* the characters of an argument of the command line
CharsOf(a) ==
  CASE a = "1" -> <<"1">>
    [] a = " 2 " -> <<" ", "2", " ">>
    [] a = "0x3" -> <<"0", "x", "3">>
    [] a = "-1" -> <<"-", "1">>
    [] a = "abc" -> <<"a", "b", "c">>
    [] a = "1.5" -> <<"1", ".", "5">>
    [] a = "" -> <<>>

\* process.argv[3]: undefined when the argument is missing
targetVersionArgument == IF Len(argv) < 2 THEN Undefined ELSE String(argv[2])

\* what the handlers called by main leave alone
MainFrame ==
  /\ UNCHANGED <<migration_dir, table_exists, appliedVersions, command, targetVersion,
                 versions, pending, loading, migrations, storeCalls>>
  /\ UNCHANGED <<argv, handling, peer>>
  /\ UNCHANGED parserVars

\* handleVersionError(targetVersion, { command }) as the catch blocks of
\* main call it
reportVersionError ==
  /\ HandleError(GooseError("Invalid version \"" \o argv[2] \o "\"", INVALID_ARGUMENT,
                            [EmptyContext EXCEPT !.command = String(argv[1]),
                                                 !.version = String(argv[2])]),
                 EmptyContext)
  /\ MainFrame

\* main, case "up-to" and case "down-to", from its entry to the first await
\* of the command: the VERSION argument is missing, or BigInt throws and the
\* catch block reports it, or the command is called with the integer
main ==
  /\ cpc = "idle"
  /\ command = "none"
  /\ argv # <<>>
  /\ argv[1] \in {"up-to", "down-to"}
  /\ IF ~Truthy(targetVersionArgument)
       THEN /\ HandleError(GooseError("VERSION argument is required", INVALID_ARGUMENT,
                                      [EmptyContext EXCEPT !.command = String(argv[1])]),
                           EmptyContext)
            /\ MainFrame
     ELSE IF ~BigInt(CharsOf(argv[2])).ok THEN reportVersionError
     ELSE IF argv[1] = "up-to" THEN upToCommand(BigInt(CharsOf(argv[2])).value)
     ELSE downToCommand(BigInt(CharsOf(argv[2])).value)

\* main, the catch block around the command: what the command threw is
\* dropped and handleVersionError is called
CatchVersionError ==
  /\ cpc = "rejected"
  /\ command \in {"up-to", "down-to"}
  /\ argv # <<>>
  /\ reportVersionError

(***************************************************************************)
(*          Inputs and specification: the command line interface           *)
(***************************************************************************)

\* the command lines: up-to and down-to, with a VERSION argument or none
CommandLines ==
  {<<c>> : c \in {"up-to", "down-to"}}
    \cup {<<c, v>> : c \in {"up-to", "down-to"}, v \in VersionArguments}

InitCli ==
  /\ ParserIdle(<<>>)
  /\ migration_dir \in
       UNION {{{[version_id |-> v, type |-> k[v].type, content |-> k[v].content] : v \in S} :
                 k \in [S -> TargetFileKinds]} :
              S \in SUBSET (1..MaxVersion)}
  /\ appliedVersions \in AppliedLists
  /\ table_exists \in BOOLEAN
  /\ appliedVersions # <<>> => table_exists
  /\ command = "none"
  /\ cpc = "idle"
  /\ targetVersion = 0
  /\ versions = <<>>
  /\ pending = <<>>
  /\ loading = <<>>
  /\ migrations = <<>>
  /\ storeCalls = <<>>
  /\ exitCode = NoExit
  /\ argv \in CommandLines
  /\ handling = NoHandling
  /\ console = <<>>
  /\ peer = NoPeer

NextCli ==
  \/ main
  \/ CatchVersionError
  \/ NextRollback
  \/ LoadTSMigration
  \/ parseSQLFile
  \/ ScanLineStart
  \/ ScanChar
  \/ ScanLineEnd
  \/ ParseFinish
  \/ LoadSQLMigration
  \/ RunMigration
  \/ RecordVersion

SpecCli == InitCli /\ [][NextCli]_vars

(***************************************************************************)
(*                     Properties of the section parser                    *)
(***************************************************************************)

\* no quoting context of the tokenizer is active
Quiet == ~inSQ /\ ~inDQ /\ ~inLine /\ ~inBlock /\ dollarTag = NullTag

\* the loop of scanLine is at a semicolon
AtSemicolon == pc = "chars" /\ i < Len(line) /\ line[i + 1] = ";"

\* this step is a call of scanLine that disposes of a whole line holding a
\* semicolon without entering the character loop
WholeLineWithSemicolon ==
  /\ pc = "lines" /\ ln <= Len(lines) /\ ln' = ln + 1
  /\ CountChar(lines[ln], ";") > 0

\* C1 as stated: every ';' of the section ends the current statement exactly
\* when the state is NORMAL and no quoting context is active, and otherwise is
\* appended to the buffer with no statement emitted.
C1_EverySemicolonSplitsOrIsBuffered ==
  [][/\ AtSemicolon =>
          IF state = NORMAL /\ Quiet
            THEN Len(statements') = Len(statements) + 1
            ELSE statements' = statements /\ buf' = buf \o <<";">>
     /\ WholeLineWithSemicolon =>
          IF state = NORMAL /\ Quiet
            THEN Len(statements') = Len(statements) + 1
            ELSE /\ statements' = statements
                 /\ CountChar(buf', ";") = CountChar(buf, ";") + CountChar(lines[ln], ";")
    ]_vars

\* C1 amended: a ';' the character loop of scanLine reaches ends the current
\* statement exactly when no quoting context is active (the state is NORMAL
\* there), the statement being the trimmed buffer with that ';'; otherwise
\* the ';' is appended to the buffer and nothing is emitted; the loop never
\* steps over a ';'.  A ';' of a line appended inside a StatementBegin block
\* goes to the buffer with its line and emits nothing.  A ';' of a line that
\* is skipped as a leading comment line (no statement begun, in either state)
\* is dropped with the line: it neither ends a statement nor reaches the buffer.
C1_SemicolonTerminator ==
  [][/\ AtSemicolon =>
          /\ state = NORMAL
          /\ i' = i + 1
          /\ IF Quiet
               THEN /\ statements' = Append(statements, Trim(buf \o <<";">>))
                    /\ buf' = <<>>
               ELSE /\ statements' = statements
                    /\ buf' = buf \o <<";">>
     /\ (pc = "chars" /\ i < Len(line) /\ line[i + 1] # ";") =>
          /\ CountChar(SubSeq(line, i + 1, i'), ";") = 0
          /\ statements' = statements
     /\ WholeLineWithSemicolon =>
          /\ statements' = statements
          /\ IF ~haveBegunStatement /\ StartsWith(Trim(lines[ln]), DashDash)
               THEN buf' = buf
               ELSE state = IN_BLOCK /\ buf' = buf \o lines[ln] \o <<"\n">>
    ]_vars

\* a ';' inside an open single-quoted string sits in the buffer after an
\* earlier ';' ended a statement
C1_Witness ==
  /\ pc = "chars"
  /\ inSQ
  /\ Len(statements) = 1
  /\ EndsWith(buf, <<";">>)

BlockStart ==
  CHOOSE b \in 0..Len(lines) :
    /\ b < ln
    /\ b > 0 => lines[b] = StatementBeginLine
    /\ \A c \in (b + 1)..(ln - 1) : lines[c] # StatementBeginLine

\* a line that is neither blank nor a line comment
IsSqlLine(l) == Trim(l) # <<>> /\ ~StartsWith(Trim(l), DashDash)

\* the text of the block up to the line being scanned, from its first line
\* that is neither blank nor a line comment
BlockBody ==
  LET sql == {c \in (BlockStart + 1)..(ln - 1) : IsSqlLine(lines[c])}
  IN IF sql = {} THEN <<>>
     ELSE Join(SubSeq(lines, CHOOSE c \in sql : \A d \in sql : c <= d, ln - 1))

\* scanLine is called with the StatementEnd line that closes the block
AtStatementEnd ==
  /\ pc = "lines" /\ ln <= Len(lines)
  /\ state = IN_BLOCK
  /\ lines[ln] = StatementEndLine

\* the steps of a block: nothing is emitted before the StatementEnd line, and
\* that line emits the block as one statement
BlockIsOneStatement ==
  /\ (state = IN_BLOCK /\ ~AtStatementEnd) => statements' = statements
  /\ AtStatementEnd =>
       /\ state' = NORMAL
       /\ Len(statements') <= Len(statements) + 1
       /\ (CountChar(BlockBody, ";") > 0 /\ ~isCommentOnly(BlockBody)) =>
             /\ Len(statements') = Len(statements) + 1
             /\ LET st == statements'[Len(statements')]
                IN /\ \/ EndsWith(st, Trim(BlockBody))
                      \/ EndsWith(st, Trim(BlockBody) \o <<";">>)
                   /\ CountChar(st, ";") >= CountChar(BlockBody, ";")

\* no returned statement holds the text "StatementBegin" or "StatementEnd"
NoDirectiveInOutput ==
  pc = "returned" =>
    \A k \in 1..Len(result.statements) :
      /\ ~Contains(result.statements[k], SubSeq(StatementBeginLine, 11, 24))
      /\ ~Contains(result.statements[k], SubSeq(StatementEndLine, 11, 22))

RECURSIVE CommentClose(_, _)
CommentClose(s, p) ==
  IF p + 1 > Len(s) THEN 0
  ELSE IF s[p] = "*" /\ s[p + 1] = "/" THEN p + 2
  ELSE CommentClose(s, p + 1)

\* the text from position p on is made of white space, line comments
\* ("--" to the end of the line) and closed block comments only
RECURSIVE OnlyCommentsFrom(_, _)
OnlyCommentsFrom(s, p) ==
  IF p > Len(s) THEN TRUE
  ELSE IF IsSpace(s[p]) THEN OnlyCommentsFrom(s, p + 1)
  ELSE IF MatchAt(s, p, DashDash, FALSE) THEN OnlyCommentsFrom(s, LineEndFrom(s, p) + 1)
  ELSE IF MatchAt(s, p, <<"/", "*">>, FALSE)
    THEN CommentClose(s, p + 2) # 0 /\ OnlyCommentsFrom(s, CommentClose(s, p + 2))
  ELSE FALSE

OnlyComments(s) == OnlyCommentsFrom(s, 1)

\* C4 as stated: a call on an input made only of line comments, block
\* comments, blank lines and white space returns no statement, and no
\* returned statement of any input is made of comments only.
C4_CommentsYieldNoStatement ==
  pc = "returned" =>
    /\ OnlyComments(content) => result.statements = <<>>
    /\ \A k \in 1..Len(result.statements) : ~OnlyComments(result.statements[k])

\* the block directives of ls, read in order from depth d (0 outside a block,
\* 1 inside), are paired and not nested, and leave the text outside a block
RECURSIVE Paired(_, _)
Paired(ls, d) ==
  IF ls = <<>> THEN d = 0
  ELSE IF Head(ls) = StatementBeginLine THEN d = 0 /\ Paired(Tail(ls), 1)
  ELSE IF Head(ls) = StatementEndLine THEN d = 1 /\ Paired(Tail(ls), 0)
  ELSE Paired(Tail(ls), d)

\* the three failures of the pairing, at the step that meets them
PairingErrors ==
  /\ (pc = "lines" /\ ln <= Len(lines) /\ lines[ln] = StatementBeginLine
        /\ state = IN_BLOCK) =>
       /\ pc' = "thrown"
       /\ result'.error.msg = "Nested StatementBegin found. Blocks cannot be nested."
  /\ (pc = "lines" /\ ln <= Len(lines) /\ lines[ln] = StatementEndLine
        /\ state = NORMAL) =>
       /\ pc' = "thrown"
       /\ result'.error.msg = "'-- +goose StatementEnd' without matching StatementBegin."
  /\ (pc = "lines" /\ ln > Len(lines) /\ state = IN_BLOCK) =>
       /\ pc' = "thrown"
       /\ result'.error.msg = "Unclosed StatementBegin block. Missing -- +goose StatementEnd."

\* a call returns exactly on the sections whose directives are paired, and
\* a call that throws returns no statements
PairedIffReturned ==
  /\ pc = "returned" => Paired(lines, 0)
  /\ pc = "thrown" => ~Paired(lines, 0) /\ result.statements = <<>>

\* C9: a call returns only if the StatementBegin and StatementEnd lines of
\* the section are paired and not nested; a StatementBegin line met in
\* IN_BLOCK throws the nested-StatementBegin error, a StatementEnd line met in
\* NORMAL throws the without-matching-StatementBegin error, the end of input
\* met in IN_BLOCK throws the unclosed-block error, and a call that throws
\* returns no statements list.
C9_PairingErrors ==
  [][PairingErrors]_vars /\ []PairedIffReturned

\* a second StatementBegin inside a block has thrown the nested error
C9_Witness ==
  /\ pc = "thrown"
  /\ result.error = NestedError
  /\ state = IN_BLOCK
  /\ ln = 3
  /\ lines[1] = StatementBeginLine /\ lines[3] = StatementBeginLine

(***************************************************************************)
(*                   Properties of the migration-file calls                *)
(***************************************************************************)

\* the first line of s that is not blank, trimmed; empty when every line is blank
FirstNonBlankLine(s) ==
  LET ls == Split(s)
      ks == {k \in 1..Len(ls) : Trim(ls[k]) # <<>>}
  IN IF ks = {} THEN <<>> ELSE Trim(ls[CHOOSE k \in ks : \A j \in ks : k <= j])

\* a call of parseSqlStatements has returned
ParseReturned == pc = "returned" /\ op = "parseSqlStatements"

\* C5 as stated: the returned transaction flag is false exactly when the first
\* non-blank line of the raw content is the NO TRANSACTION directive (as
\* parseAnnotation reads directives: either prefix, any letter case), whatever
\* the direction and whatever NO TRANSACTION lines come later.
C5_FirstLineDecidesTransaction ==
  ParseReturned =>
    (result.transaction = FALSE
       <=> parseAnnotation(FirstNonBlankLine(content)) = "NO TRANSACTION")

\* C6 as stated: when the first non-blank line of the content is
\* "-- +goose NO TRANSACTION" or "--+goose NO TRANSACTION" in any letter case,
\* the returned transaction flag is false.
C6_NoTransactionAnyCase ==
  ParseReturned =>
    (toUpperCase(FirstNonBlankLine(content))
        \in {toUpperCase(NO_TRANSACTION_COMMENT), toUpperCase(NO_TRANSACTION_ALT)}
      => result.transaction = FALSE)

\* the numbers of the lines of s that read as the marker m: the marker text
\* in any letter case from the start of the line, then white space only
MarkerLines(s, m) ==
  LET ls == Split(s)
  IN {k \in 1..Len(ls) : toUpperCase(TrimEnd(ls[k])) = toUpperCase(m)}

UpLines(s) == MarkerLines(s, UP_COMMENT)
DownLines(s) == MarkerLines(s, DOWN_COMMENT)

\* the one element of a set of one element
TheOne(S) == CHOOSE k \in S : TRUE

\* s is structurally valid: exactly one Up line, at most one Down line, the
\* Down line after the Up line
StructurallyValid(s) ==
  /\ Cardinality(UpLines(s)) = 1
  /\ Cardinality(DownLines(s)) <= 1
  /\ \A d \in DownLines(s) : TheOne(UpLines(s)) < d

\* the caller has parsed the file and then the Up section it extracted
ParsedBothWays == calls = 2 /\ pc \in {"returned", "thrown"}

\* C7 as stated: for every structurally valid file, parsing the extracted Up
\* section gives what parsing the file gave: the same outcome, the same
\* statements list and the same transaction flag.
C7_ParseOfExtractedEqualsParse ==
  (ParsedBothWays /\ StructurallyValid(file)) =>
    /\ result.status = prior.status
    /\ result.statements = prior.statements
    /\ result.transaction = prior.transaction

\* a call of validateMigrationFile, or of an extraction that validates
\* first, has ended
ValidationEnded ==
  /\ calls = 1 /\ pc \in {"returned", "thrown"}
  /\ op \in {"validateMigrationFile", "extractUpSection", "extractDownSection"}

\* the call failed with the message for a wrong number n of Up lines
FailedUpCount(n) ==
  /\ pc = "thrown"
  /\ result.error.msg =
       "Migration file must have exactly one '${upComment}' annotation. Found ${n}."
  /\ result.error.found = n

\* the call failed with the message for a wrong number n of Down lines
FailedDownCount(n) ==
  /\ pc = "thrown"
  /\ result.error.msg =
       "Migration file can have at most one '${downComment}' annotation. Found ${n}."
  /\ result.error.found = n

FailedOrder ==
  /\ pc = "thrown"
  /\ result.error.msg = "'${upComment}' must come before '${downComment}' in migration file."

Between(s, a, b) == Trim(Join(SubSeq(Split(s), a + 1, b - 1)))

\* C10 as stated: for every structurally valid file, extractUpSection returns
\* exactly the trimmed text between the Up line and the Down line (the end of
\* the file when there is no Down line), and extractDownSection returns
\* exactly the trimmed text after the Down line.
C10_SectionsAreExactSlices ==
  (calls = 1 /\ pc \in {"returned", "thrown"} /\ StructurallyValid(file)) =>
    LET u == TheOne(UpLines(file))
        n == Len(Split(file))
        d == IF DownLines(file) = {} THEN n + 1 ELSE TheOne(DownLines(file))
    IN /\ op = "extractUpSection" =>
            pc = "returned" /\ result.value = Between(file, u, d)
       /\ (op = "extractDownSection" /\ DownLines(file) # {}) =>
            pc = "returned" /\ result.value = Between(file, d, n + 1)

(***************************************************************************)
(*                   Properties of the marker spellings                    *)
(***************************************************************************)

\* a first call has ended
FirstCallEnded == calls = 1 /\ pc \in {"returned", "thrown"}

\* the outcome and the statements of a result
Statements(r) == <<r.status, r.statements>>

\* the file s with every line that reads as an Up or Down marker from its
\* first column (either prefix, any letter case) written as the constants
\* UP_COMMENT and DOWN_COMMENT spell it
Canonical(s) ==
  LET ls == Split(s)
  IN Join([k \in 1..Len(ls) |->
             IF parseAnnotation(ls[k]) = "UP" THEN UP_COMMENT
             ELSE IF parseAnnotation(ls[k]) = "DOWN" THEN DOWN_COMMENT
             ELSE ls[k]])

\* C11 as stated: a file whose Up and Down markers are written without the
\* space after "--" or in another letter case is validated, extracted and
\* parsed to the same outcome, sections and statements as the same file with
\* the markers written "-- +goose Up" and "-- +goose Down".
C11_MarkerSpellingsEquivalent ==
  FirstCallEnded =>
    /\ op = "validateMigrationFile" => result = validateResult(Canonical(file))
    /\ op = "extractUpSection" => result = extractUpResult(Canonical(file))
    /\ op = "extractDownSection" => result = extractDownResult(Canonical(file))
    /\ op = "parseSqlStatements" =>
         Statements(result) = Statements(parseResult(Canonical(file), direction))

\* the numbers of the lines of s that, trimmed, read as a Down annotation
DownAnnotationLines(s) ==
  LET ls == Split(s)
  IN {k \in 1..Len(ls) : parseAnnotation(Trim(ls[k])) = "DOWN"}

\* the lines of s up to and including its first Down annotation line
ThroughDown(s) ==
  LET ds == DownAnnotationLines(s)
      d == CHOOSE k \in ds : \A j \in ds : k <= j
  IN Join(SubSeq(Split(s), 1, d))

\* C12 as stated: Up and Down annotation lines are recognized whatever white
\* space surrounds them on the line, so a call with direction "up" that
\* returns builds no statement from the text after a Down annotation line:
\* it returns the statements of the content cut after that line.
C12_NothingFromAfterDown ==
  (FirstCallEnded /\ op = "parseSqlStatements" /\ direction = "up"
     /\ pc = "returned" /\ DownAnnotationLines(content) # {}) =>
    result.statements = parseResult(ThroughDown(content), "up").statements

(***************************************************************************)
(*                 Properties of the directives and of ENVSUB              *)
(***************************************************************************)

\* every "${" of l stands after a backslash
OnlyEscapedReferences(l) ==
  \A p \in 1..(Len(l) - 1) :
    (l[p] = "$" /\ l[p + 1] = "{") => (p > 1 /\ l[p - 1] = "\\")

\* C13 as stated: a line whose references "${...}" are all escaped with a
\* backslash is scanned as it was written, ENVSUB on or off: substitution
\* fires only on an unescaped "${VAR}".
C13_EscapedReferenceUntouched ==
  (pc = "chars" /\ OnlyEscapedReferences(lines[ln])) => line = lines[ln]

C15_OtherDirectionFails ==
  (FirstCallEnded /\ op = "parseSqlStatements" /\ direction \notin Directions) =>
    /\ pc = "thrown"
    /\ result.error.msg = "Invalid direction: ${direction}"

(***************************************************************************)
(*                      Properties of repeated calls                       *)
(***************************************************************************)

\* C16: whatever calls were made before and however they ended, a call of
\* parseSqlStatements, extractUpSection or extractDownSection ends with the
\* result its arguments alone determine (the environment being fixed): the
\* result of the same call made first.
C16_ResultDependsOnArgumentsOnly ==
  pc \in {"returned", "thrown"} =>
    /\ op = "parseSqlStatements" => result = parseResult(content, direction)
    /\ op = "extractUpSection" => result = extractUpResult(content)
    /\ op = "extractDownSection" => result = extractDownResult(content)

\* after a call that switched ENVSUB on and substituted V, a second call has
\* returned the reference to V as it was written
C16_Witness ==
  /\ calls = 2
  /\ pc = "returned"
  /\ prior.statements = << <<"v", ";">> >>
  /\ content = <<"$", "{", "V", "}", ";">>
  /\ result.statements = << <<"$", "{", "V", "}", ";">> >>

(***************************************************************************)
(*                        Properties of the commands                       *)
(***************************************************************************)

\* the versions of the files of the directory
LocalVersions == {f.version_id : f \in migration_dir}

\* the versions a list of rows records
Applied(rows) == {rows[k] : k \in 1..Len(rows)}

\* the versions the command has passed to a function of the store, in order
CallsOf(fn) ==
  LET cs == SelectSeq(storeCalls, LAMBDA c : c.fn = fn)
  IN [k \in 1..Len(cs) |-> cs[k].version]

Ascending(vs) == \A j, k \in 1..Len(vs) : j < k => vs[j] < vs[k]

\* the last call of the store executed the migration m
JustRan(m) ==
  /\ storeCalls # <<>>
  /\ storeCalls[Len(storeCalls)].fn \in {"runMigration", "begin"}
  /\ storeCalls[Len(storeCalls)].version = m.version_id

\* a step of upCommand that changes the table inserts one row: the lowest
\* local version not applied yet, right after its migration ran
UpRecordsLowestUnapplied ==
  (command = "up" /\ appliedVersions' # appliedVersions) =>
    /\ cpc = "record"
    /\ appliedVersions' = Append(appliedVersions, Head(migrations).version_id)
    /\ LocalVersions \ Applied(appliedVersions) # {}
    /\ \A v \in LocalVersions \ Applied(appliedVersions) : Head(migrations).version_id <= v
    /\ Head(migrations).version_id \in LocalVersions
    /\ Executes(Head(migrations)) => JustRan(Head(migrations))
    /\ storeCalls' = Append(storeCalls,
                            StoreCall("insertVersion", Head(migrations).version_id, FALSE))

\* upCommand has ended with nothing left to apply: every local version is
\* recorded, the versions it recorded are the ones that were not, in
\* ascending order
UpCompleted ==
  /\ (command = "up" /\ cpc = "returned") =>
       /\ LocalVersions \subseteq Applied(appliedVersions)
       /\ Applied(CallsOf("insertVersion")) = LocalVersions \ Applied(versions)
       /\ appliedVersions = versions \o CallsOf("insertVersion")
  /\ (command = "up" /\ cpc = "exited" /\ exitCode = SUCCESS) =>
       /\ LocalVersions \subseteq Applied(appliedVersions)
       /\ appliedVersions = versions
  /\ command = "up" => Ascending(CallsOf("insertVersion"))

\* C17: upCommand applies every local migration whose version is not
\* recorded, lowest version first, and inserts each version right after its
\* migration ran; when it returns, every local version is recorded and the
\* versions it inserted are in ascending order.
C17_UpAppliesAllInOrder == [][UpRecordsLowestUnapplied]_vars /\ []UpCompleted

\* upCommand has returned after it inserted two versions next to a version
\* recorded before
C17_Witness ==
  /\ command = "up"
  /\ cpc = "returned"
  /\ versions # <<>>
  /\ Len(CallsOf("insertVersion")) >= 2

\* the local versions the command found no row for when it began
UnappliedAtStart == LocalVersions \ Applied(versions)

\* the lowest of the local versions that were not applied
LowestUnapplied == CHOOSE v \in UnappliedAtStart : \A w \in UnappliedAtStart : v <= w

\* the calls of the store that executed a migration, in order
Executed ==
  LET cs == SelectSeq(storeCalls, LAMBDA c : c.fn \in {"runMigration", "begin"})
  IN [k \in 1..Len(cs) |-> cs[k].version]

\* upByOneCommand at any point: the table is as it found it, or has one row
\* more, for the lowest unapplied local version, and nothing else was run
UpByOneTouchesOnlyLowest ==
  command = "up-by-one" =>
    /\ \/ appliedVersions = versions
       \/ /\ UnappliedAtStart # {}
          /\ appliedVersions = Append(versions, LowestUnapplied)
    /\ CallsOf("deleteVersion") = <<>>
    /\ Executed # <<>> => UnappliedAtStart # {} /\ Executed = <<LowestUnapplied>>
    /\ cpc = "returned" =>
         /\ appliedVersions = Append(versions, LowestUnapplied)
         /\ CallsOf("insertVersion") = <<LowestUnapplied>>
    /\ \A v \in 1..MaxVersion :
         (UnappliedAtStart = {} \/ v # LowestUnapplied) =>
           (v \in Applied(appliedVersions) <=> v \in Applied(versions))

\* upByOneCommand with no unapplied local version: exit code 0, the table
\* as it was
UpByOneNothingToApply ==
  (command = "up-by-one" /\ UnappliedAtStart = {}) =>
    /\ cpc = "exited"
    /\ exitCode = SUCCESS
    /\ appliedVersions = versions
    /\ storeCalls = <<>>

\* C18: upByOneCommand runs and records one migration, the unapplied local
\* migration of the lowest version, and changes the status of no other
\* version; with no unapplied local migration it exits with code 0 and the
\* applied set is as it was.
C18_UpByOneAppliesLowestOnly == UpByOneTouchesOnlyLowest /\ UpByOneNothingToApply

\* upByOneCommand has returned: two local versions were unapplied next to a
\* recorded one, and the lower of the two is now recorded
C18_Witness ==
  /\ command = "up-by-one"
  /\ cpc = "returned"
  /\ versions # <<>>
  /\ Cardinality(UnappliedAtStart) >= 2
  /\ appliedVersions = Append(versions, LowestUnapplied)

\* the rows without their last
AllButLast(rows) == SubSeq(rows, 1, Len(rows) - 1)

\* downCommand that found the table and, for the last row of it, a local
\* file: only that row goes, after only that migration ran
DownDeletesOnlyLast ==
  (command = "down" /\ versions # <<>> /\ versions[Len(versions)] \in LocalVersions) =>
    /\ appliedVersions \in {versions, AllButLast(versions)}
    /\ CallsOf("insertVersion") = <<>>
    /\ CallsOf("deleteVersion") \in {<<>>, <<versions[Len(versions)]>>}
    /\ Executed \in {<<>>, <<versions[Len(versions)]>>}
    /\ appliedVersions # versions => CallsOf("deleteVersion") # <<>>
    /\ cpc = "returned" =>
         /\ appliedVersions = AllButLast(versions)
         /\ CallsOf("deleteVersion") = <<versions[Len(versions)]>>

\* downCommand with nothing to roll back: the exit codes, the table as it was
DownExits ==
  /\ (command = "down" /\ ~table_exists) =>
       /\ cpc = "exited"
       /\ exitCode = ERROR
       /\ appliedVersions = <<>>
       /\ storeCalls = <<>>
  /\ (command = "down" /\ table_exists /\ versions = <<>>) =>
       /\ cpc = "exited"
       /\ exitCode = NO_MIGRATIONS
       /\ appliedVersions = <<>>
       /\ storeCalls = <<>>
  /\ (command = "down" /\ versions # <<>> /\ versions[Len(versions)] \notin LocalVersions) =>
       /\ cpc = "exited"
       /\ exitCode = NO_MIGRATIONS
       /\ appliedVersions = versions
       /\ storeCalls = <<>>

\* C19: downCommand rolls back one migration, the last entry store.getVersions
\* returned, and deletes the row of that version and no other; it exits with
\* code 1 when the table does not exist, with code 3 when no version is
\* applied or the last applied version has no local file, and the applied
\* set is then as it was.
C19_DownRollsBackLastOnly == DownDeletesOnlyLast /\ DownExits

\* downCommand has returned: of two or more rows the last, which is not the
\* highest version, is gone
C19_Witness ==
  /\ command = "down"
  /\ cpc = "returned"
  /\ Len(versions) >= 2
  /\ versions[Len(versions)] < versions[1]
  /\ appliedVersions = AllButLast(versions)

\* the execution of a migration threw: the last call the log holds
Failed == storeCalls # <<>> /\ storeCalls[Len(storeCalls)].threw

\* the versions the command inserted or deleted
Recorded == Applied(CallsOf("insertVersion")) \cup Applied(CallsOf("deleteVersion"))

\* once the execution of a migration has thrown the process has exited with
\* code 4 and no call follows; the failed migration and the later ones are
\* neither inserted nor deleted, the versions recorded before are in place
FailureLeavesTheRest ==
  /\ \A k \in 1..Len(storeCalls) : storeCalls[k].threw => k = Len(storeCalls)
  /\ Failed =>
       /\ cpc = "exited"
       /\ exitCode = MIGRATION_ERROR
       /\ \A v \in Recorded : v < storeCalls[Len(storeCalls)].version
       /\ command \in {"up", "up-by-one"} =>
            /\ appliedVersions = versions \o CallsOf("insertVersion")
            /\ \A v \in UnappliedAtStart :
                 v >= storeCalls[Len(storeCalls)].version => v \notin Applied(appliedVersions)
       /\ command = "down" =>
            /\ appliedVersions = versions
            /\ storeCalls[Len(storeCalls)].version \in Applied(appliedVersions)

\* the process that has exited makes no call of the store: the next step is
\* a new command, which begins with an empty log and the table as it is
ExitedIsOver ==
  cpc = "exited" =>
    /\ appliedVersions' = appliedVersions
    /\ storeCalls' = <<>>

\* C20: when the execution of a migration fails inside runMigration the
\* process exits with code 4, neither insertVersion nor deleteVersion is
\* called for that migration or a later one of the command, and the versions
\* of the migrations the command completed before stay recorded.
C20_FailedMigrationNotRecorded == [][ExitedIsOver]_vars /\ []FailureLeavesTheRest

\* upCommand has exited with code 4 on its second migration of three: the
\* first is recorded, the second and the third are not
C20_Witness ==
  /\ command = "up"
  /\ Failed
  /\ exitCode = MIGRATION_ERROR
  /\ Len(CallsOf("insertVersion")) = 1
  /\ Cardinality(UnappliedAtStart) = 3
  /\ Len(appliedVersions) = 1

(***************************************************************************)
(*                   Properties of the transaction flag                    *)
(***************************************************************************)

\* the local file of version v
FileOf(v) == CHOOSE f \in migration_dir : f.version_id = v

\* the calls of store.runMigration the command has made
RunMigrationCalls == {k \in 1..Len(storeCalls) : storeCalls[k].fn = "runMigration"}

\* the statements a list of calls on db executes, in order
RECURSIVE StatementsOf(_)
StatementsOf(db) ==
  IF db = <<>> THEN <<>> ELSE Head(db).statements \o StatementsOf(Tail(db))

\* how the store executes: under one db.begin when the flag is true, each
\* statement by a db.unsafe of its own when it is false
ExecutesAsFlagSays(c) ==
  /\ c.transaction => Len(c.db) = 1 /\ c.db[1].fn = "begin"
  /\ ~c.transaction =>
       \A k \in 1..Len(c.db) : c.db[k].fn = "unsafe" /\ Len(c.db[k].statements) = 1
  /\ Len(StatementsOf(c.db)) > 0

\* C21: every call of store.runMigration gets the flag of the file of its own
\* migration, false exactly when the first non-blank line of that file is the
\* NO TRANSACTION directive, whatever the other migrations of the command
\* are, up or down; the store then executes one statement at a time outside
\* a transaction when the flag is false, all of them inside one db.begin
\* when it is true.
C21_FlagOfItsOwnFile ==
  \A k \in RunMigrationCalls :
    /\ storeCalls[k].transaction =
         ~(parseAnnotation(FirstNonBlankLine(FileOf(storeCalls[k].version).content))
             = "NO TRANSACTION")
    /\ ExecutesAsFlagSays(storeCalls[k])


(***************************************************************************)
(*                Properties of the commands with a target                 *)
(***************************************************************************)

\* the local versions up to the target that had no row when upToCommand began
UpToUnapplied == {v \in LocalVersions \ Applied(versions) : v <= targetVersion}

\* upToCommand refuses its target: no local file has it, or the current
\* version is beyond it
UpToRefused ==
  \/ targetVersion \notin LocalVersions
  \/ current_version(versions) > targetVersion

\* upToCommand finds the database at its target
UpToAtTarget ==
  /\ targetVersion \in LocalVersions
  /\ current_version(versions) = targetVersion

\* the command has exited with the code and has called the store for nothing
\* but the rows
ExitedUntouched(code) ==
  /\ cpc = "exited"
  /\ exitCode = code
  /\ storeCalls = <<>>
  /\ appliedVersions = versions

\* upToCommand on a target it refuses, or is at: exit 1, or 0, nothing run
\* and nothing recorded
UpToExits ==
  command = "up-to" =>
    /\ UpToRefused => ExitedUntouched(ERROR)
    /\ UpToAtTarget => ExitedUntouched(SUCCESS)

\* a step of upToCommand that changes the table inserts one row: the lowest
\* local version up to the target that is not applied yet, after its
\* migration ran
UpToRecordsLowestUnapplied ==
  (command = "up-to" /\ appliedVersions' # appliedVersions) =>
    /\ cpc = "record"
    /\ appliedVersions' = Append(appliedVersions, Head(migrations).version_id)
    /\ Head(migrations).version_id \in UpToUnapplied \ Applied(appliedVersions)
    /\ \A v \in UpToUnapplied \ Applied(appliedVersions) : Head(migrations).version_id <= v
    /\ Executes(Head(migrations)) => JustRan(Head(migrations))

\* upToCommand at any point has run and recorded versions up to the target
\* only, in ascending order; when it returns, it has recorded every local
\* version up to the target that was not applied, and no other
UpToCompleted ==
  command = "up-to" =>
    /\ \A k \in 1..Len(storeCalls) : /\ storeCalls[k].version <= targetVersion
                                     /\ storeCalls[k].version \in UpToUnapplied
    /\ Ascending(Executed)
    /\ Ascending(CallsOf("insertVersion"))
    /\ CallsOf("deleteVersion") = <<>>
    /\ appliedVersions = versions \o CallsOf("insertVersion")
    /\ (~UpToAtTarget /\ (cpc = "returned" \/ (cpc = "exited" /\ exitCode = SUCCESS))) =>
         Applied(CallsOf("insertVersion")) = UpToUnapplied

DownTo == command = "down-to" /\ ~targetIsZero(targetVersion)

\* downToCommand exits before its loop: 1 without the table; 0 with no row,
\* or at its target; 1 below its target, for a target that is not local, for
\* a target that was never applied; the first of these that holds decides,
\* nothing is run and no row is deleted
DownToExits ==
  DownTo =>
    IF ~table_exists THEN ExitedUntouched(ERROR)
    ELSE IF versions = <<>> \/ current_version(versions) = targetVersion
      THEN ExitedUntouched(SUCCESS)
    ELSE IF \/ current_version(versions) < targetVersion
            \/ targetVersion \notin LocalVersions
            \/ targetVersion \notin Applied(versions)
      THEN ExitedUntouched(ERROR)
    ELSE ~(cpc = "exited" /\ exitCode \in {SUCCESS, ERROR})

\* the place of the version v in the rows
PlaceOf(rows, v) == CHOOSE k \in 1..Len(rows) : rows[k] = v

\* a step of downToCommand that changes the table deletes one row: the one
\* applied last among the recorded versions above the target that have a
\* local file, after its migration ran
DownToDeletesLastAbove ==
  (DownTo /\ appliedVersions' # appliedVersions) =>
    LET v == Head(migrations).version_id
    IN /\ cpc = "record"
       /\ v > targetVersion
       /\ v \in Applied(appliedVersions) \cap LocalVersions
       /\ appliedVersions' = deleteVersion(appliedVersions, v)
       /\ \A w \in Applied(appliedVersions) \cap LocalVersions :
            w > targetVersion => PlaceOf(appliedVersions, w) <= PlaceOf(appliedVersions, v)
       /\ Executes(Head(migrations)) => JustRan(Head(migrations))

\* downToCommand never deletes its target or a lower version
DownToKeepsTheRest ==
  DownTo =>
    SelectSeq(appliedVersions, LAMBDA v : v <= targetVersion)
      = SelectSeq(versions, LAMBDA v : v <= targetVersion)

\* downToCommand has returned: no version above the target is recorded
DownToAllAboveGone ==
  (DownTo /\ cpc = "returned") =>
    appliedVersions = SelectSeq(versions, LAMBDA v : v <= targetVersion)

\* downToCommand has returned: the versions above the target that are still
\* recorded are the ones without a local file
DownToLocalAboveGone ==
  (DownTo /\ cpc = "returned") =>
    appliedVersions =
      SelectSeq(versions, LAMBDA v : v <= targetVersion \/ v \notin LocalVersions)

\* C23 as stated: downToCommand(target), target other than 0, exits 1, 0 or 1
\* before it deletes anything in the cases listed; otherwise it rolls back the
\* applied versions above the target, last applied first, and leaves the
\* target and every lower version recorded.
C23_DownToRollsBackAllAbove ==
  /\ [][DownToDeletesLastAbove]_vars
  /\ []DownToExits
  /\ []DownToKeepsTheRest
  /\ []DownToAllAboveGone

\* C23, amended: as above, for the applied versions above the target that
\* have a local file; an applied version above the target without a local
\* file is skipped and stays recorded.
C23_DownToRollsBackLocalAbove ==
  /\ [][DownToDeletesLastAbove]_vars
  /\ []DownToExits
  /\ []DownToKeepsTheRest
  /\ []DownToLocalAboveGone

\* downToCommand has returned after it rolled back one version above its
\* target and skipped another, which has no local file
C23_Witness ==
  /\ DownTo
  /\ cpc = "returned"
  /\ CallsOf("deleteVersion") # <<>>
  /\ \E v \in Applied(appliedVersions) : v > targetVersion /\ v \notin LocalVersions


\* resetCommand, or downToCommand with the target 0
ResetLike == command = "reset" \/ (command = "down-to" /\ targetVersion = 0)

\* a step that starts resetCommand, or downToCommand with the target 0: exit
\* 1 without the table, exit 0 with no row, otherwise the loop over all the
\* rows, last first, and nothing changed yet
ResetStarts ==
  (cpc \in Ended /\ command' \in {"reset", "down-to"} /\ targetVersion' = 0) =>
    /\ storeCalls' = <<>>
    /\ appliedVersions' = appliedVersions
    /\ IF ~table_exists
         THEN cpc' = "exited" /\ exitCode' = ERROR /\ pending' = <<>>
       ELSE IF appliedVersions = <<>>
         THEN cpc' = "exited" /\ exitCode' = SUCCESS /\ pending' = <<>>
       ELSE cpc' = "next" /\ pending' = Reverse(appliedVersions)
                          /\ versions' = appliedVersions

\* a step of the command that changes the table deletes one row: the one
\* applied last among the recorded versions that have a local file, after its
\* migration ran
ResetDeletesLast ==
  (ResetLike /\ appliedVersions' # appliedVersions) =>
    LET v == Head(migrations).version_id
    IN /\ cpc = "record"
       /\ v \in Applied(appliedVersions) \cap LocalVersions
       /\ appliedVersions' = deleteVersion(appliedVersions, v)
       /\ \A w \in Applied(appliedVersions) \cap LocalVersions :
            PlaceOf(appliedVersions, w) <= PlaceOf(appliedVersions, v)
       /\ Executes(Head(migrations)) => JustRan(Head(migrations))

\* the command has returned: the rows left are the ones without a local
\* file, none when every applied version has one; the rows were deleted last
\* applied first
ResetCompleted ==
  (ResetLike /\ cpc = "returned") =>
    /\ appliedVersions = SelectSeq(versions, LAMBDA v : v \notin LocalVersions)
    /\ Applied(versions) \subseteq LocalVersions => appliedVersions = <<>>
    /\ CallsOf("deleteVersion")
         = Reverse(SelectSeq(versions, LAMBDA v : v \in LocalVersions))

\* C24: resetCommand rolls back all the applied migrations, last applied
\* first, so that when every applied version has a local file no version is
\* recorded when it completes; downToCommand with the target 0 starts as
\* resetCommand does and goes on in the same way.
C24_ResetRollsBackAll ==
  [][ResetStarts /\ ResetDeletesLast]_vars /\ []ResetCompleted

\* downToCommand with the target 0 has returned after it rolled back three
\* versions that were not applied in the order of their numbers
C24_Witness ==
  /\ command = "down-to"
  /\ targetVersion = 0
  /\ cpc = "returned"
  /\ appliedVersions = <<>>
  /\ Len(versions) = MaxVersion
  /\ ~Ascending(versions)
  /\ CallsOf("deleteVersion") = Reverse(versions)


(***************************************************************************)
(*                Properties of the buffer between statements              *)
(***************************************************************************)

\* scanLine is about to be called on the next line of the section
AtLineStart == pc = "lines" /\ ln <= Len(lines)

\* the buffer holds text, and not comments only
BufferHoldsStatement == Trim(buf) # <<>> /\ ~isCommentOnly(Trim(buf))

\* C25: a StatementBegin line read outside a block while the buffer holds
\* text that is not a comment emits that text as a statement of its own,
\* empties the buffer and enters IN_BLOCK; so also when the text is what
\* follows a ';' on its line ("a; b", then StatementBegin).
C25_StatementBeginFlushes ==
  [][(/\ AtLineStart
      /\ parseAnnotation(Trim(lines[ln])) = "STATEMENTBEGIN"
      /\ state = NORMAL
      /\ BufferHoldsStatement)
       => /\ statements' = Append(statements, ensureTrailingSemicolon(Trim(buf)))
          /\ buf' = <<>>
          /\ state' = IN_BLOCK]_vars


\* the line is blank or a comment, and no directive
PlainLine(l) ==
  /\ Trim(l) = <<>> \/ StartsWith(Trim(l), DashDash)
  /\ parseAnnotation(Trim(l)) = NoAnn

\* at the start of a line haveBegunStatement is false exactly when the
\* buffer holds no text
FlagFollowsBuffer == AtLineStart => (~haveBegunStatement <=> Trim(buf) = <<>>)

\* a blank or comment line read while the buffer holds text is not dropped
KeptOnceBuffered ==
  (AtLineStart /\ PlainLine(lines[ln]) /\ Trim(buf) # <<>>) =>
    \/ pc' = "chars"
    \/ buf' = buf \o lines[ln] \o <<"\n">>

\* C26: a blank line or plain comment line is dropped only when the buffer
\* holds no text: once text of a statement is in the buffer, each following
\* blank or comment line goes into that statement; at the start of every
\* line haveBegunStatement is false exactly when the buffer holds no text.
C26_LeadingLinesOnlyDropped == [][KeptOnceBuffered]_vars /\ []FlagFollowsBuffer


(***************************************************************************)
(*                     Properties of the ENVSUB switch                     *)
(***************************************************************************)

\* whether the last ENVSUB directive among the first k lines is ENVSUB ON;
\* false when there is none
RECURSIVE EnvsubAfter(_, _)
EnvsubAfter(ls, k) ==
  IF k = 0 THEN FALSE
  ELSE IF parseAnnotation(Trim(ls[k])) = "ENVSUB ON" THEN TRUE
  ELSE IF parseAnnotation(Trim(ls[k])) = "ENVSUB OFF" THEN FALSE
  ELSE EnvsubAfter(ls, k - 1)

\* every call begins with ENVSUB off
CallBeginsWithEnvsubOff == (pc = "idle" /\ pc' = "lines") => ~envOn'

\* the switch is as the last ENVSUB directive above the line left it
SwitchFollowsDirective == AtLineStart => (envOn <=> EnvsubAfter(lines, ln - 1))

\* a line taken as text, for the character loop or as the line of a block,
\* is taken with its references replaced when the last ENVSUB directive above
\* it is ENVSUB ON, and as it is otherwise
TextSubstitutedWhenOn ==
  (AtLineStart /\ parseAnnotation(Trim(lines[ln])) = NoAnn) =>
    LET text == IF EnvsubAfter(lines, ln - 1) THEN ExpandEnv(lines[ln], env) ELSE lines[ln]
    IN /\ pc' = "chars" => line' = text
       /\ (pc' = "lines" /\ buf' # buf) => buf' = buf \o text \o <<"\n">>

\* the reference to the unset variable becomes the empty text under ENVSUB
\* ON and stays under ENVSUB OFF; the reference to V becomes its value
ReferencesReplaced ==
  pc = "returned" =>
    /\ content = Join(<<EnvsubOnLine, UnsetReferenceLine>>) =>
         result.statements = << <<"b", ";">> >>
    /\ content = Join(<<EnvsubOnLine, EnvsubOffLine, UnsetReferenceLine>>) =>
         result.statements = <<UnsetReferenceLine>>
    /\ content = UnsetReferenceLine => result.statements = <<UnsetReferenceLine>>
    /\ content = Join(<<EnvsubOnLine, <<"$", "{", "V", "}", ";">> >>) =>
         result.statements = << <<"v", ";">> >>
    /\ content = <<"$", "{", "V", "}", ";">> =>
         result.statements = << <<"$", "{", "V", "}", ";">> >>

\* C27: ENVSUB is off when a call begins; a line is taken with its ${VAR}
\* references replaced exactly when the last ENVSUB directive above it in the
\* section is ENVSUB ON, whatever statements and blocks lie between; a
\* variable that is not set is replaced by the empty text; a line read while
\* ENVSUB is off is taken as it is.
C27_EnvsubFollowsLastDirective ==
  /\ [][CallBeginsWithEnvsubOff /\ TextSubstitutedWhenOn]_vars
  /\ []SwitchFollowsDirective
  /\ []ReferencesReplaced

\* a call has returned the text of a block whose reference to the unset
\* variable was replaced by nothing, under an ENVSUB ON given before the
\* StatementBegin line
C27_Witness ==
  /\ pc = "returned"
  /\ content = Join(<<EnvsubOnLine, StatementBeginLine, UnsetReferenceLine, StatementEndLine>>)
  /\ result.statements = << <<"b", ";">> >>


(***************************************************************************)
(*                      Properties of quoted literals                      *)
(***************************************************************************)

\* the quote context after the characters of l from position j on, read in
\* the context q: a quote opens its literal outside any, a doubled quote
\* inside its literal is part of it, a single one closes it
RECURSIVE QuoteAfter(_, _, _)
QuoteAfter(q, l, j) ==
  IF j > Len(l) THEN q
  ELSE IF q = "none"
    THEN QuoteAfter(IF l[j] = "'" THEN "sq" ELSE IF l[j] = "\"" THEN "dq" ELSE "none",
                    l, j + 1)
  ELSE LET mark == IF q = "sq" THEN "'" ELSE "\""
       IN IF l[j] # mark THEN QuoteAfter(q, l, j + 1)
          ELSE IF j < Len(l) /\ l[j + 1] = mark THEN QuoteAfter(q, l, j + 2)
          ELSE QuoteAfter("none", l, j + 1)

\* the quote context after the first k lines
RECURSIVE QuoteAfterLines(_, _)
QuoteAfterLines(ls, k) ==
  IF k = 0 THEN "none" ELSE QuoteAfter(QuoteAfterLines(ls, k - 1), ls[k], 1)

\* the quote context the scanner is in
QuoteContext == IF inSQ THEN "sq" ELSE IF inDQ THEN "dq" ELSE "none"

\* the scanner's flags say what the text read so far says: a literal is open
\* exactly when its opening quote has met no single closing quote
QuoteContextFollowsText ==
  /\ ~(inSQ /\ inDQ)
  /\ pc = "lines" => QuoteContext = QuoteAfterLines(lines, ln - 1)
  /\ pc = "chars" =>
       QuoteContext = QuoteAfter(QuoteAfterLines(lines, ln - 1), SubSeq(line, 1, i), 1)

\* the character the loop is at, and the one after it
Ch == line[i + 1]
NextCh == IF i + 1 < Len(line) THEN line[i + 2] ELSE ""

\* a doubled quote inside its literal goes to the buffer and leaves the
\* literal open
DoubledQuoteStaysInside ==
  (pc = "chars" /\ i < Len(line)) =>
    /\ (inSQ /\ Ch = "'" /\ NextCh = "'") =>
         inSQ' /\ i' = i + 2 /\ buf' = buf \o <<"'", "'">> /\ statements' = statements
    /\ (inDQ /\ Ch = "\"" /\ NextCh = "\"") =>
         inDQ' /\ i' = i + 2 /\ buf' = buf \o <<"\"", "\"">> /\ statements' = statements

\* a ';' inside a literal is text
SemicolonInsideLiteral ==
  (pc = "chars" /\ i < Len(line) /\ Ch = ";" /\ (inSQ \/ inDQ)) =>
    statements' = statements /\ buf' = buf \o <<";">>

\* C28: a doubled '' inside an open single-quoted string does not close it,
\* nor does a doubled "" inside an open double-quoted identifier; after any
\* scanned text a literal is open exactly when its opening quote has not met
\* a closing quote that is not doubled; a ';' inside a literal, also right
\* after a doubled quote, ends no statement.
C28_DoubledQuoteKeepsLiteralOpen ==
  [][DoubledQuoteStaysInside /\ SemicolonInsideLiteral]_vars /\ []QuoteContextFollowsText

\* a call has returned 'a'';' as one statement: the ';' after the doubled
\* quote ended nothing, the last quote closed the string
C28_Witness ==
  /\ pc = "returned"
  /\ content = <<"'", "'", "'", ";", "'">>
  /\ result.statements = << <<"'", "'", "'", ";", "'", ";">> >>
  /\ ~inSQ


(***************************************************************************)
(*                    Properties of dollar-quoted bodies                   *)
(***************************************************************************)

\* the text at the character the loop is at begins with p
LineHas(p) == i + Len(p) <= Len(line) /\ SubSeq(line, i + 1, i + Len(p)) = p

\* the scanner is in no quote and in no comment
NoContext == ~inSQ /\ ~inDQ /\ ~inLine /\ ~inBlock /\ dollarTag = NullTag

\* the scanner is inside a dollar-quoted body
InBody == dollarTag # NullTag

\* outside every context $tag$ opens a body and its tag is kept
TagOpensBody ==
  (pc = "chars" /\ i < Len(line) /\ NoContext) =>
    \A tag \in {<<>>, <<"t">>, <<"o">>} :
      LineHas(<<"$">> \o tag \o <<"$">>) =>
        /\ dollarTag' = tag
        /\ i' = i + Len(tag) + 2
        /\ buf' = buf \o <<"$">> \o tag \o <<"$">>

\* inside a body a step of the character loop closes it exactly when the
\* text there is the opening $tag$ again; nothing else changes the tag
OnlyItsTagClosesBody ==
  (pc = "chars" /\ i < Len(line) /\ InBody) =>
    IF LineHas(<<"$">> \o dollarTag \o <<"$">>)
      THEN dollarTag' = NullTag /\ i' = i + Len(dollarTag) + 2
    ELSE dollarTag' = dollarTag /\ i' = i + 1 /\ buf' = buf \o <<Ch>>

\* inside a body no step sets another context, leaves the state NORMAL or
\* emits a statement, and the end of a line leaves the body open
BodyIsOpaque ==
  InBody =>
    /\ ~inSQ /\ ~inDQ /\ ~inLine /\ ~inBlock
    /\ ~inSQ' /\ ~inDQ' /\ ~inLine' /\ ~inBlock'
    /\ statements' = statements
    /\ state' = state
    /\ (pc = "lines" \/ (pc = "chars" /\ i >= Len(line))) => dollarTag' = dollarTag

\* the step reads a line that is a directive
ReadsDirective == AtLineStart /\ parseAnnotation(Trim(lines[ln])) # NoAnn

ActiveContexts ==
  (IF inSQ THEN 1 ELSE 0) + (IF inDQ THEN 1 ELSE 0) + (IF inLine THEN 1 ELSE 0)
    + (IF inBlock THEN 1 ELSE 0) + (IF dollarTag # NullTag THEN 1 ELSE 0)

\* at most one context is active, and no line comment between two lines
OneContextAtMost ==
  /\ ActiveContexts <= 1
  /\ pc = "lines" => ~inLine

\* from the end of the character loop of a line to the character loop of
\* the next, the string, the identifier, the block comment and the dollar
\* body stay as they are
ContextsCarryOver ==
  (pc = "lines" \/ (pc = "chars" /\ i >= Len(line))) =>
    UNCHANGED <<inSQ, inDQ, inBlock, dollarTag>>

\* C30: at every point of the scan at most one of the five contexts is
\* active: single-quoted string, double-quoted identifier, line comment,
\* block comment, dollar-quoted body; the line comment is never active at
\* the start of a line, the other four go over from one line to the next.
C30_OneContextAtATime == [][ContextsCarryOver]_vars /\ []OneContextAtMost

\* a line comment has ended with its line, and the string opened on the line
\* after it is still open at the start of the next
C30_Witness ==
  /\ pc = "lines"
  /\ lines = << <<"*", "/">>, <<"-", "-", ";">>, <<"'">> >>
  /\ ln = 4
  /\ inSQ
  /\ ~inLine
  /\ buf = <<"*", "/", "\n", "-", "-", ";", "\n", "'", "\n">>


(***************************************************************************)
(*              Properties of versions without a local file                *)
(***************************************************************************)

\* resetCommand or downToCommand is running
RollsBack == command \in {"reset", "down-to"}

\* the turn of the loop for a version without a local file: nothing is
\* called, no row changes, no exit, the loop goes on with the versions left
SkipsMissingFile ==
  (RollsBack /\ cpc = "next" /\ pending # <<>> /\ Head(pending) \notin LocalVersions) =>
    /\ storeCalls' = storeCalls
    /\ appliedVersions' = appliedVersions
    /\ cpc' = "next"
    /\ exitCode' = exitCode
    /\ pending' = Tail(pending)

\* the command never calls the store for a version without a local file,
\* and such a version stays recorded; after the last turn it returns
MissingFileStaysRecorded ==
  RollsBack =>
    /\ \A k \in 1..Len(storeCalls) : storeCalls[k].version \in LocalVersions
    /\ \A v \in Applied(versions) \ LocalVersions : v \in Applied(appliedVersions)
    /\ cpc = "returned" => exitCode = SUCCESS
    /\ (cpc = "exited" /\ storeCalls = <<>>) =>
         (~table_exists \/ versions = <<>> \/ (command = "down-to" /\ targetVersion # 0))

\* C31: in resetCommand and downToCommand an applied version without a local
\* migration file is skipped: nothing runs for it, deleteVersion is not
\* called for it, it stays recorded, and the command goes on with the
\* versions left and returns without an error exit.
C31_MissingFileSkipped == [][SkipsMissingFile]_vars /\ []MissingFileStaysRecorded

\* resetCommand has returned after it rolled back 3, skipped 2, which has no
\* local file, and rolled back 1
C31_Witness ==
  /\ command = "reset"
  /\ cpc = "returned"
  /\ versions = <<1, 2, 3>>
  /\ 2 \notin LocalVersions
  /\ CallsOf("deleteVersion") = <<3, 1>>
  /\ appliedVersions = <<2>>

(***************************************************************************)
(*                     Properties of the error handler                     *)
(***************************************************************************)

\* a handler was called and the process has ended
Handled == handling.handler # "none" /\ cpc = "exited"

\* the exit code each handler stands for
CodeOfHandler ==
  CASE handling.handler = "handleError" ->
         IF handling.error.kind = "GooseError" THEN handling.error.exitCode ELSE 1
    [] handling.handler \in {"handleInvalidArgument", "handleVersionError"} -> 2
    [] handling.handler = "handleNoMigrations" -> 3
    [] handling.handler = "handleMigrationError" -> 4
    [] handling.handler = "handleDatabaseError" -> 5

\* the message a handler was called to report; an Error without a message
\* is reported as an unknown error
MessageOfHandler ==
  CASE handling.handler = "handleError" ->
         IF handling.error.kind = "Error" /\ handling.error.message = ""
           THEN "Unknown error occurred" ELSE handling.error.message
    [] handling.handler = "handleNoMigrations" -> "No migrations found"
    [] handling.handler = "handleVersionError" ->
         "Invalid version \"" \o handling.version \o "\""
    [] OTHER -> handling.message

\* the place of a piece in the logged line, from the outside in
Rank(label) ==
  CASE label = "Error" -> 0
    [] label = "Table" -> 1
    [] label = "File" -> 2
    [] label = "Version" -> 3
    [] label = "Command" -> 4
    [] label = "message" -> 5
    [] OTHER -> 6

\* the key of the context a prefix is made from
KeyOf(label) ==
  CASE label = "Table" -> "tableName"
    [] label = "File" -> "fileName"
    [] label = "Version" -> "version"
    [] label = "Command" -> "command"

\* a called handler ends the process in one step
HandlerExits == cpc = "handler" => cpc' = "exited" /\ exitCode' \in ExitCodes

\* a called handler can always take that step
HandlerCanExit == cpc = "handler" => ENABLED NextErrors

\* the process ends with the code of the handler, or of the GooseError
ExitsWithItsCode == Handled => exitCode = CodeOfHandler

\* the line logged first is "Error: ", the prefixes in the order Table,
\* File, Version, Command, then the message
PrefixesNested ==
  Handled =>
    /\ console # <<>>
    /\ LET m == console[1]
       IN /\ m[1] = Part("Error", "")
          /\ m[Len(m)] = Part("message", MessageOfHandler)
          /\ \A a, b \in 1..Len(m) : a < b => Rank(m[a].label) < Rank(m[b].label)

\* a string or a plain Error: the prefixes are those of the truthy keys of
\* the context handed over, each with its value
PrefixesOfContext ==
  (Handled /\ handling.handler = "handleError" /\ handling.error.kind # "GooseError") =>
     LET m == console[1]
     IN /\ \A k \in 2..(Len(m) - 1) :
             /\ m[k].label \in {"Table", "File", "Version", "Command"}
             /\ Truthy(handling.context[KeyOf(m[k].label)])
             /\ m[k].value = handling.context[KeyOf(m[k].label)].text
        /\ \A l \in {"Table", "File", "Version", "Command"} :
             Truthy(handling.context[KeyOf(l)]) => \E k \in 2..(Len(m) - 1) : m[k].label = l

\* C32: handleError always ends the process, with the exit code of a
\* GooseError and with 1 for a string or a plain Error;
\* handleInvalidArgument and handleVersionError exit with 2,
\* handleNoMigrations with 3, handleMigrationError with 4 and
\* handleDatabaseError with 5; the logged message nests the prefixes in the
\* order Table, File, Version, Command around the message
C32_HandlersExitAndNestPrefixes ==
  /\ [][HandlerExits]_vars
  /\ [](HandlerCanExit /\ ExitsWithItsCode /\ PrefixesNested /\ PrefixesOfContext)

\* handleError("Database error", context) with the four keys set: exit
\* code 1 and all four prefixes around the message
C32_Witness ==
  /\ Handled
  /\ handling.handler = "handleError"
  /\ handling.error = StringError("Database error")
  /\ exitCode = 1
  /\ console = << <<Part("Error", ""), Part("Table", "migrations"), Part("File", "001.sql"),
                    Part("Version", "123"), Part("Command", "up"),
                    Part("message", "Database error")>> >>

(***************************************************************************)
(*                  Properties of lines inside a literal                   *)
(***************************************************************************)

\* a single-quoted string, a double-quoted identifier or a dollar-quoted
\* body is open
InLiteral == inSQ \/ inDQ \/ dollarTag # NullTag

\* a blank or comment line read inside an open literal goes into the buffer
LiteralLineKept ==
  (AtLineStart /\ InLiteral /\ PlainLine(lines[ln])) =>
    \/ pc' = "chars"
    \/ buf' = buf \o lines[ln] \o <<"\n">>

\* the lines of the statements returned
StatementLines == UNION {{Split(statements[k])[n] : n \in 1..Len(Split(statements[k]))} :
                           k \in 1..Len(statements)}

\* a comment line read inside an open literal is a line of a statement
\* returned
LiteralCommentReturned ==
  (AtLineStart /\ InLiteral /\ lines[ln] = <<"-", "-", "x">>) =>
     [](pc = "returned" => <<"-", "-", "x">> \in StatementLines)

\* C33: every line inside an open single-quoted string, double-quoted
\* identifier or dollar-quoted body appears in the emitted statement: no
\* blank line and no line starting with "--" is dropped from inside a
\* literal, also when the literal is opened after a ';' on the line of the
\* statement before.
C33_LiteralLinesVerbatim == [][LiteralLineKept]_vars /\ []LiteralCommentReturned

(***************************************************************************)
(*               Properties of the values of the environment               *)
(***************************************************************************)

\* the second parse of the text has ended; prior is what the first gave
ParsedTwice == calls = 2 /\ pc \in {"returned", "thrown"}

\* both parses end the same way and return as many statements
SameSplit ==
  ParsedTwice =>
    /\ result.status = prior.status
    /\ Len(result.statements) = Len(prior.statements)

\* a statement has no terminator before its end: no value has added a
\* place where the text is split
SplitOnlyAtTheEnd ==
  ParsedTwice =>
    \A k \in 1..Len(result.statements) :
      \A n \in 1..(Len(result.statements[k]) - 1) : result.statements[k][n] # ";"

\* C34: with ENVSUB on, how many statements are returned and where the text
\* is split do not depend on the values of the variables: two parses of one
\* text under environments that differ in values only return statement
\* lists of the same length.
C34_SplitIndependentOfValues == [](SameSplit /\ SplitOnlyAtTheEnd)

(***************************************************************************)
(*               Properties of the contexts around a block                 *)
(***************************************************************************)

\* a quote, a block comment or a dollar-quoted body is open after the step
ContextOpenAfter == inSQ' \/ inDQ' \/ inBlock' \/ dollarTag' # NullTag

\* the step reads a StatementBegin line and enters the block
EntersBlock == state = NORMAL /\ state' = IN_BLOCK

\* the step reads a StatementEnd line and returns to NORMAL
LeavesBlock == state = IN_BLOCK /\ state' = NORMAL

\* no context is open when a block is entered or left
NoContextAroundBlock == (EntersBlock \/ LeavesBlock) => ~ContextOpenAfter

\* C35: whenever the parser enters a StatementBegin block, and whenever it
\* returns to NORMAL at StatementEnd, no single quote, double quote, block
\* comment or dollar tag is open, so that nothing left open before a block
\* suppresses the splitting of the statements after it.
C35_NoContextAroundBlock == [][NoContextAroundBlock]_vars

(***************************************************************************)
(*                Properties of a parse error in a command                 *)
(***************************************************************************)

\* the command has ended on what the parser threw
ParseErrorRaised == cpc = "rejected"

\* no migration was executed and no row inserted or deleted by the command
NothingDone ==
  \A k \in 1..Len(storeCalls) :
    storeCalls[k].fn \notin {"runMigration", "begin", "insertVersion", "deleteVersion"}

\* the table is as the command found it
TableAsFound == table_exists => appliedVersions = versions

\* C36: for every command that processes several migrations (up, up-to,
\* down-to, reset), a parse error in a selected migration file is raised
\* before any selected migration is executed and before any row is inserted
\* or deleted: the failed command leaves the database and the applied set
\* as they were.
C36_ParseErrorBeforeAnyChange == ParseErrorRaised => (NothingDone /\ TableAsFound)

(***************************************************************************)
(*               Properties of executing and recording                     *)
(***************************************************************************)

\* the call k of the log executed a migration and did not throw: what it
\* executed is committed
Committed(k) == storeCalls[k].fn \in {"runMigration", "begin"} /\ ~storeCalls[k].threw

\* the call k of the log wrote or removed the row of version v
RecordedBy(k, v) ==
  /\ storeCalls[k].fn \in {"insertVersion", "deleteVersion"}
  /\ storeCalls[k].version = v
  /\ ~storeCalls[k].threw

\* no call of runMigration is between its try block and its last statement
OutsideRunMigration == cpc # "record"

\* what was committed has its row written or removed by the next call
CommittedIsRecorded ==
  OutsideRunMigration =>
    \A k \in 1..Len(storeCalls) :
      Committed(k) => k < Len(storeCalls) /\ RecordedBy(k + 1, storeCalls[k].version)

\* a row is written or removed only for a migration that did not fail
RecordedIsCommitted ==
  \A k \in 1..Len(storeCalls) :
    RecordedBy(k, storeCalls[k].version) =>
      ~\E j \in 1..(k - 1) :
         /\ storeCalls[j].fn \in {"runMigration", "begin"}
         /\ storeCalls[j].version = storeCalls[k].version
         /\ storeCalls[j].threw

\* C37: executing a migration and recording its version are atomic: after
\* runMigration has returned or failed, the statements of a migration are
\* committed exactly when its row has been inserted (up) or deleted (down);
\* a failure of insertVersion or deleteVersion leaves no committed
\* statements without the change of the row.
C37_ExecuteAndRecordAtomic == CommittedIsRecorded /\ RecordedIsCommitted

(***************************************************************************)
(*                  Properties of two concurrent commands                  *)
(***************************************************************************)

\* how many calls of a log executed the migration of version v to its end
RECURSIVE RunsIn(_, _)
RunsIn(log, v) ==
  IF log = <<>> THEN 0
  ELSE (IF Head(log).fn \in {"runMigration", "begin"} /\ Head(log).version = v
           /\ ~Head(log).threw
          THEN 1 ELSE 0) + RunsIn(Tail(log), v)

\* no migration is executed twice by the two processes together
NoMigrationExecutedTwice ==
  \A v \in 1..MaxVersion : RunsIn(storeCalls, v) + RunsIn(peer.storeCalls, v) <= 1

\* no version has two rows
NoVersionRecordedTwice ==
  \A j, k \in 1..Len(appliedVersions) : appliedVersions[j] = appliedVersions[k] => j = k

\* C38: when two upCommand calls run at once on one database and one
\* directory, no migration is executed twice and no version_id is recorded
\* twice, however their store calls interleave.
C38_ConcurrentUpAppliesOnce == NoMigrationExecutedTwice /\ NoVersionRecordedTwice

(***************************************************************************)
(*                   Properties of the current version                     *)
(***************************************************************************)

\* no command is running
BetweenCommands == cpc \in Ended

\* C39: after any sequence of up, up-by-one, up-to, down, down-to and reset
\* commands, files being added between them, the version down, up-to and
\* down-to take as current, that of the last row by applied_at, is the
\* highest version_id that has a row.
C39_CurrentIsHighest ==
  (BetweenCommands /\ appliedVersions # <<>>) =>
    \A k \in 1..Len(appliedVersions) :
      appliedVersions[k] <= current_version(getVersions(appliedVersions))

(***************************************************************************)
(*                 Properties of the command line interface                *)
(***************************************************************************)

\* the process has ended on the line Error: ... Invalid version "VERSION"
InvalidVersionReported ==
  /\ cpc = "exited"
  /\ console # <<>>
  /\ Len(argv) = 2
  /\ LET m == console[Len(console)]
     IN m[Len(m)] = Part("message", "Invalid version \"" \o argv[2] \o "\"")

\* C40: the CLI reports 'Invalid version' (handleVersionError, exit code 2)
\* for up-to and down-to only when the VERSION argument cannot be converted
\* to an integer; an error thrown while the command runs, such as a parse
\* error in a migration file, is never reported as an invalid version.
C40_InvalidVersionOnlyForBadArgument ==
  InvalidVersionReported =>
    /\ exitCode = INVALID_ARGUMENT
    /\ ~BigInt(CharsOf(argv[2])).ok
    /\ command = "none"

====
